---- MODULE Spec2Model ----
(***************************************************************************)
(* geolite: the SQL binding layer (geolite-sqlite/src/ffi.rs) over the     *)
(* function catalog (geolite-core/src/function_catalog.rs).                *)
(*                                                                         *)
(* Seven state machines share this module:                                 *)
(*   Spec      the spatial-index helpers CreateSpatialIndex and            *)
(*             DropSpatialIndex on one connection, with the statements     *)
(*             that fire the triggers they install;                        *)
(*   SpecTxn   the helpers inside the savepoints of the user, with         *)
(*             statements that fail;                                       *)
(*   SpecIdent the same helpers called with arbitrary identifier bytes;    *)
(*   SpecCall  one call of any registered callback on arbitrary SQL        *)
(*             values;                                                     *)
(*   SpecReg   the registration loop of register_functions;                *)
(*   SpecGeom  one call of a function of geolite-core (the EWKB codec of   *)
(*             ewkb.rs and the functions built on it) on arbitrary blobs;  *)
(*   SpecNames the names the helpers derive for two (table, column) pairs. *)
(*                                                                         *)
(* Identifiers are sequences of bytes, as validate_identifier sees them.   *)
(***************************************************************************)
EXTENDS Integers, Sequences, FiniteSets, TLC

VARIABLES
    rows,          \* base table -> rowid -> value of the geometry column
    rtrees,        \* R-tree table name -> id -> bounding box (the schema's R-trees)
    triggers,      \* the triggers of the schema, as records
    spStack,       \* the connection's open savepoints, oldest first
    recTriggers,   \* PRAGMA recursive_triggers of the connection
    sinceCreate,   \* history: a successful CreateSpatialIndex, then only INSERT,
                   \* UPDATE OF the column and DELETE statements
    last,          \* history: the last operation and what it returned
    call,          \* SpecCall: the last callback invocation and its outcome
    connAlive,     \* SpecCall: the host process survived the last callback
    regPc,         \* SpecReg: position of register_functions
    regIdx,        \* SpecReg: index of the next catalog entry
    registered,    \* SpecReg: what sqlite3_create_function_v2 has been given
    regRc,         \* SpecReg: the value register_functions returned
    geo            \* SpecGeom: the last call of a geolite-core function and its result

vars == <<rows, rtrees, triggers, spStack, recTriggers, sinceCreate, last,
          call, connAlive, regPc, regIdx, registered, regRc, geo>>

----------------------------------------------------------------------------
(* Bounds *)

MaxRowId == 2
MaxStack == 2
MaxIdentLen == 2

RowIds == 1..MaxRowId

----------------------------------------------------------------------------
(* Bytes and names *)

Underscore == <<95>>
SfxRtree  == <<95, 114, 116, 114, 101, 101>>
SfxInsert == <<95, 105, 110, 115, 101, 114, 116>>
SfxUpdate == <<95, 117, 112, 100, 97, 116, 101>>
SfxDelete == <<95, 100, 101, 108, 101, 116, 101>>

\* The one base table of the modelled database, "t", and its geometry column "g".
BaseTable == <<116>>
GeomColumn == <<103>>
Tables == {BaseTable}
ColumnsOf(table) == IF table = BaseTable THEN {GeomColumn} ELSE {}

IsAsciiAlphanumeric(b) == (b >= 48 /\ b <= 57) \/ (b >= 65 /\ b <= 90) \/ (b >= 97 /\ b <= 122)

ValidateIdentifierNoEmptyCheck(s) ==
    \A i \in 1..Len(s) : IsAsciiAlphanumeric(s[i]) \/ s[i] = 95

validate_identifier(s) ==
    /\ Len(s) # 0
    /\ \A i \in 1..Len(s) : IsAsciiAlphanumeric(s[i]) \/ s[i] = 95

\* std::str::from_utf8 on the byte alphabet of the model: one-byte forms and the
\* two-byte form (lead C2..DF, continuation 80..BF).
RECURSIVE Utf8Valid(_)
Utf8Valid(b) ==
    IF Len(b) = 0 THEN TRUE
    ELSE IF b[1] < 128 THEN Utf8Valid(Tail(b))
    ELSE IF b[1] >= 194 /\ b[1] <= 223 /\ Len(b) >= 2 /\ b[2] >= 128 /\ b[2] <= 191
         THEN Utf8Valid(Tail(Tail(b)))
    ELSE FALSE

RtreeName(table, column) == table \o Underscore \o column \o SfxRtree
TriggerName(table, column, sfx) == table \o Underscore \o column \o sfx

----------------------------------------------------------------------------
(* SQL values *)

SqlValue(cls, bytes) == [cls |-> cls, bytes |-> bytes]
NullValue == SqlValue("NULL", <<>>)
TextValue(bytes) == SqlValue("TEXT", bytes)
BlobValue(bytes) == SqlValue("BLOB", bytes)

\* get_blob: no look at the storage class beyond NULL; sqlite3_value_blob hands
\* back the bytes of a BLOB or TEXT and the decimal rendering of a number.
get_blob(v) ==
    IF v.cls = "NULL" THEN [tag |-> "None", b |-> <<>>]
    ELSE [tag |-> "Some", b |-> v.bytes]

\* get_text: no look at the storage class beyond NULL; sqlite3_value_text hands
\* back the bytes of a TEXT or BLOB and the decimal rendering of a number.
get_text(v) ==
    IF v.cls = "NULL" THEN [tag |-> "Null", s |-> <<>>]
    ELSE IF Utf8Valid(v.bytes) THEN [tag |-> "Value", s |-> v.bytes]
    ELSE [tag |-> "InvalidUtf8", s |-> <<>>]

----------------------------------------------------------------------------
(* Column values and the accessors the index SQL calls *)

Geoms == {"gA", "gB"}
Vals == {"NULL", "EMPTY", "INVALID"} \cup Geoms
Absent == "ABSENT"
NoEntry == <<>>

\* ST_XMin, ST_XMax, ST_YMin, ST_YMax of POINT(1 2) and POINT(3 4), in the
\* R-tree's column order (xmin, xmax, ymin, ymax).
BBoxOf(g) == IF g = "gA" THEN <<1, 1, 2, 2>> ELSE <<3, 3, 4, 4>>

\* ST_IsEmpty errors on a value that is no EWKB ("INVALID", such as the integer 42).
IsEmptyErrors(v) == v = "INVALID"
\* [column] IS NOT NULL AND ST_IsEmpty([column]) = 0
Indexable(v) == v \in Geoms

----------------------------------------------------------------------------
(* The database of one connection and the statements the helpers execute *)

Db(r, rt, tg, sp) == [rows |-> r, rtrees |-> rt, triggers |-> tg, sp |-> sp]

Sql(kind, sp, name, table, column) ==
    [kind |-> kind, sp |-> sp, name |-> name, table |-> table, column |-> column]
NoStmt == Sql("NONE", "", <<>>, <<>>, <<>>)

Trigger(name, table, column, kind, rtree) ==
    [name |-> name, table |-> table, column |-> column, kind |-> kind, rtree |-> rtree]

EmptyRtree == [id \in RowIds |-> NoEntry]

SqlOk(db) == [rc |-> "OK", db |-> db]
SqlErr(db) == [rc |-> "ERR", db |-> db]

\* 0 when x is not in s
LastIndexOf(s, x) ==
    CHOOSE i \in 0..Len(s) :
        /\ i > 0 => s[i] = x
        /\ \A j \in (i + 1)..Len(s) : s[j] # x

\* INSERT INTO rtree VALUES (id, ...): a second entry under one id is a constraint
\* error unless the statement's conflict policy is REPLACE.
RtreeInsert(db, rt, id, box, orReplace) ==
    IF rt \notin DOMAIN db.rtrees THEN SqlErr(db)
    ELSE IF db.rtrees[rt][id] # NoEntry /\ ~orReplace THEN SqlErr(db)
    ELSE SqlOk([db EXCEPT !.rtrees[rt][id] = box])

\* DELETE FROM rtree WHERE id = ...
RtreeDelete(db, rt, id) ==
    IF rt \notin DOMAIN db.rtrees THEN SqlErr(db)
    ELSE SqlOk([db EXCEPT !.rtrees[rt][id] = NoEntry])

\* INSERT INTO rtree SELECT rowid, ST_XMin(c), ... FROM table
\*   WHERE c IS NOT NULL AND ST_IsEmpty(c) = 0
Populate(db, rt, table, column) ==
    IF table \notin Tables \/ column \notin ColumnsOf(table) \/ rt \notin DOMAIN db.rtrees
    THEN SqlErr(db)
    ELSE IF \E id \in RowIds : IsEmptyErrors(db.rows[table][id]) THEN SqlErr(db)
    ELSE IF \E id \in RowIds :
                Indexable(db.rows[table][id]) /\ db.rtrees[rt][id] # NoEntry
    THEN SqlErr(db)
    ELSE SqlOk([db EXCEPT !.rtrees[rt] =
                   [id \in RowIds |-> IF Indexable(db.rows[table][id])
                                      THEN BBoxOf(db.rows[table][id])
                                      ELSE db.rtrees[rt][id]]])

\* CREATE TRIGGER IF NOT EXISTS name AFTER kind ON table
CreateTrigger(db, name, table, column, kind) ==
    IF \E t \in db.triggers : t.name = name THEN SqlOk(db)
    ELSE IF table \notin Tables THEN SqlErr(db)
    ELSE SqlOk([db EXCEPT !.triggers =
                   @ \cup {Trigger(name, table, column, kind, RtreeName(table, column))}])

\* What one statement does to the database; snap is the database as it was when
\* the savepoint a ROLLBACK TO names was opened.
ApplySql(db, snap, sql) ==
    CASE sql.kind = "SAVEPOINT" ->
           SqlOk([db EXCEPT !.sp = Append(@, sql.sp)])
      [] sql.kind = "RELEASE" ->
           IF LastIndexOf(db.sp, sql.sp) = 0 THEN SqlErr(db)
           ELSE SqlOk([db EXCEPT !.sp = SubSeq(@, 1, LastIndexOf(db.sp, sql.sp) - 1)])
      [] sql.kind = "ROLLBACK_TO" ->
           IF LastIndexOf(db.sp, sql.sp) = 0 THEN SqlErr(db)
           ELSE SqlOk([snap EXCEPT !.sp = SubSeq(db.sp, 1, LastIndexOf(db.sp, sql.sp))])
      [] sql.kind = "CREATE_VIRTUAL_TABLE" ->
           IF sql.name \in DOMAIN db.rtrees THEN SqlOk(db)
           ELSE SqlOk([db EXCEPT !.rtrees = (sql.name :> EmptyRtree) @@ @])
      [] sql.kind = "DELETE_FROM" ->
           IF sql.name \notin DOMAIN db.rtrees THEN SqlErr(db)
           ELSE SqlOk([db EXCEPT !.rtrees[sql.name] = EmptyRtree])
      [] sql.kind = "INSERT_SELECT" ->
           Populate(db, sql.name, sql.table, sql.column)
      [] sql.kind = "CREATE_TRIGGER_INSERT" ->
           CreateTrigger(db, sql.name, sql.table, sql.column, "INSERT")
      [] sql.kind = "CREATE_TRIGGER_UPDATE" ->
           CreateTrigger(db, sql.name, sql.table, sql.column, "UPDATE")
      [] sql.kind = "CREATE_TRIGGER_DELETE" ->
           CreateTrigger(db, sql.name, sql.table, sql.column, "DELETE")
      [] sql.kind = "DROP_TRIGGER" ->
           SqlOk([db EXCEPT !.triggers = {t \in @ : t.name # sql.name}])
      [] sql.kind = "DROP_TABLE" ->
           SqlOk([db EXCEPT !.rtrees =
                     [n \in (DOMAIN @) \ {sql.name} |-> @[n]]])
      [] OTHER -> SqlErr(db)

----------------------------------------------------------------------------
(* The result slot of a callback's context, and the helpers' SQL plumbing *)

Ctx(kind, text, sql) == [kind |-> kind, text |-> text, sql |-> sql]
CtxUnset == Ctx("unset", "", NoStmt)
set_null == Ctx("null", "", NoStmt)
set_i32(v) == Ctx("int", ToString(v), NoStmt)
set_error(label, msg) == Ctx("error", label \o ": " \o msg, NoStmt)
\* exec_sql_inner hands SQLite's own message for the failed statement to set_error
\* as it is, with no label; the model names that message by the statement.
set_error_sqlite(sql) == Ctx("error", "", sql)

\* The state a helper threads through its statements: the database, the database
\* as it was when the helper's savepoint was opened, the result slot, the first
\* statement that failed, the kinds of the statements that failed with no context
\* to report to, the number of statements handed to sqlite3_exec, and the
\* statements the host fails for reasons of its own (busy, I/O, out of memory).
HelperState(db, env) ==
    [db |-> db, snap |-> db, ctx |-> CtxUnset, ff |-> NoStmt, sf |-> {}, nexec |-> 0,
     env |-> env]

exec_sql_inner(st, sql, hasCtx) ==
    LET r == IF sql \in st.env THEN SqlErr(st.db) ELSE ApplySql(st.db, st.snap, sql)
    IN  [rc |-> r.rc,
         st |-> [st EXCEPT !.db = r.db,
                           !.nexec = @ + 1,
                           !.ctx = IF r.rc # "OK" /\ hasCtx THEN set_error_sqlite(sql) ELSE @,
                           !.ff = IF r.rc # "OK" /\ @ = NoStmt THEN sql ELSE @,
                           !.sf = IF r.rc # "OK" /\ ~hasCtx THEN @ \cup {sql.kind} ELSE @]]

exec_sql(st, sql) == exec_sql_inner(st, sql, TRUE)
exec_sql_silent(st, sql) == exec_sql_inner(st, sql, FALSE)

RollbackSavepointLoud(st, savepoint) ==
    exec_sql(exec_sql(st, Sql("ROLLBACK_TO", savepoint, <<>>, <<>>, <<>>)).st,
             Sql("RELEASE", savepoint, <<>>, <<>>, <<>>)).st

rollback_savepoint(st, savepoint) ==
    exec_sql_silent(exec_sql_silent(st, Sql("ROLLBACK_TO", savepoint, <<>>, <<>>, <<>>)).st,
                    Sql("RELEASE", savepoint, <<>>, <<>>, <<>>)).st

\* The statements between SAVEPOINT and RELEASE: each is followed by
\*   if exec_sql(..) != SQLITE_OK { rollback_savepoint(..); return; }
RECURSIVE RunInner(_, _, _, _)
RunInner(st, savepoint, stmts, i) ==
    IF i > Len(stmts) THEN [done |-> TRUE, st |-> st]
    ELSE LET r == exec_sql(st, stmts[i])
         IN  IF r.rc # "OK"
             THEN [done |-> FALSE, st |-> rollback_savepoint(r.st, savepoint)]
             ELSE RunInner(r.st, savepoint, stmts, i + 1)

get_table_column(argv, label) ==
    LET t == get_text(argv[1])
        c == get_text(argv[2])
        bad(msg) == [ok |-> FALSE, table |-> <<>>, column |-> <<>>, ctx |-> set_error(label, msg)]
    IN  IF t.tag = "Null" THEN bad("table name must not be NULL")
        ELSE IF t.tag = "InvalidUtf8" THEN bad("table name must be valid UTF-8 text")
        ELSE IF c.tag = "Null" THEN bad("column name must not be NULL")
        ELSE IF c.tag = "InvalidUtf8" THEN bad("column name must be valid UTF-8 text")
        ELSE IF ~validate_identifier(t.s)
             THEN bad("invalid table name (only [a-zA-Z0-9_] allowed)")
        ELSE IF ~validate_identifier(c.s)
             THEN bad("invalid column name (only [a-zA-Z0-9_] allowed)")
        ELSE [ok |-> TRUE, table |-> t.s, column |-> c.s, ctx |-> CtxUnset]

CreateSavepoint == "geolite_create_spatial_index"
DropSavepoint == "geolite_drop_spatial_index"

CreateStatementsNoDelete(table, column) ==
    << Sql("CREATE_VIRTUAL_TABLE", "", RtreeName(table, column), <<>>, <<>>),
       Sql("INSERT_SELECT", "", RtreeName(table, column), table, column),
       Sql("CREATE_TRIGGER_INSERT", "", TriggerName(table, column, SfxInsert), table, column),
       Sql("CREATE_TRIGGER_UPDATE", "", TriggerName(table, column, SfxUpdate), table, column),
       Sql("CREATE_TRIGGER_DELETE", "", TriggerName(table, column, SfxDelete), table, column) >>

CreateStatements(table, column) ==
    << Sql("CREATE_VIRTUAL_TABLE", "", RtreeName(table, column), <<>>, <<>>),
       Sql("DELETE_FROM", "", RtreeName(table, column), <<>>, <<>>),
       Sql("INSERT_SELECT", "", RtreeName(table, column), table, column),
       Sql("CREATE_TRIGGER_INSERT", "", TriggerName(table, column, SfxInsert), table, column),
       Sql("CREATE_TRIGGER_UPDATE", "", TriggerName(table, column, SfxUpdate), table, column),
       Sql("CREATE_TRIGGER_DELETE", "", TriggerName(table, column, SfxDelete), table, column) >>

DropStatements(table, column) ==
    << Sql("DROP_TRIGGER", "", TriggerName(table, column, SfxInsert), <<>>, <<>>),
       Sql("DROP_TRIGGER", "", TriggerName(table, column, SfxUpdate), <<>>, <<>>),
       Sql("DROP_TRIGGER", "", TriggerName(table, column, SfxDelete), <<>>, <<>>),
       Sql("DROP_TABLE", "", RtreeName(table, column), <<>>, <<>>) >>

create_spatial_index_xfunc(db, argv, env) ==
    LET tc == get_table_column(argv, "CreateSpatialIndex")
        st0 == HelperState(db, env)
    IN  IF ~tc.ok THEN [st0 EXCEPT !.ctx = tc.ctx]
        ELSE LET r0 == exec_sql(st0, Sql("SAVEPOINT", CreateSavepoint, <<>>, <<>>, <<>>))
             IN  IF r0.rc # "OK" THEN r0.st
                 ELSE LET inner == RunInner(r0.st, CreateSavepoint,
                                            CreateStatements(tc.table, tc.column), 1)
                      IN  IF ~inner.done THEN inner.st
                          ELSE LET r9 == exec_sql(inner.st,
                                          Sql("RELEASE", CreateSavepoint, <<>>, <<>>, <<>>))
                               IN  IF r9.rc # "OK" THEN r9.st
                                   ELSE [r9.st EXCEPT !.ctx = set_i32(1)]

drop_spatial_index_xfunc(db, argv, env) ==
    LET tc == get_table_column(argv, "DropSpatialIndex")
        st0 == HelperState(db, env)
    IN  IF ~tc.ok THEN [st0 EXCEPT !.ctx = tc.ctx]
        ELSE LET r0 == exec_sql(st0, Sql("SAVEPOINT", DropSavepoint, <<>>, <<>>, <<>>))
             IN  IF r0.rc # "OK" THEN r0.st
                 ELSE LET inner == RunInner(r0.st, DropSavepoint,
                                            DropStatements(tc.table, tc.column), 1)
                      IN  IF ~inner.done THEN inner.st
                          ELSE LET r9 == exec_sql(inner.st,
                                          Sql("RELEASE", DropSavepoint, <<>>, <<>>, <<>>))
                               IN  IF r9.rc # "OK" THEN r9.st
                                   ELSE [r9.st EXCEPT !.ctx = set_i32(1)]

----------------------------------------------------------------------------
(* The statements of the user on the base table, with the triggers they fire *)

\* The body of one trigger, run for one row. NEW.[column] IS NOT NULL AND
\* ST_IsEmpty(NEW.[column]) = 0 raises ST_IsEmpty's error on a value that is no EWKB.
TriggerBody(db, trg, oldId, newId, newVal, orReplace) ==
    CASE trg.kind = "INSERT" ->
           IF IsEmptyErrors(newVal) THEN SqlErr(db)
           ELSE IF ~Indexable(newVal) THEN SqlOk(db)
           ELSE RtreeInsert(db, trg.rtree, newId, BBoxOf(newVal), orReplace)
      [] trg.kind = "UPDATE" ->
           LET d == RtreeDelete(db, trg.rtree, oldId)
           IN  IF d.rc # "OK" THEN d
               ELSE IF IsEmptyErrors(newVal) THEN SqlErr(db)
               ELSE IF ~Indexable(newVal) THEN d
               ELSE RtreeInsert(d.db, trg.rtree, newId, BBoxOf(newVal), orReplace)
      [] trg.kind = "DELETE" ->
           RtreeDelete(db, trg.rtree, oldId)
      [] OTHER -> SqlErr(db)

RECURSIVE FireAll(_, _, _, _, _, _)
FireAll(db, trgs, oldId, newId, newVal, orReplace) ==
    IF trgs = {} THEN SqlOk(db)
    ELSE LET t == CHOOSE x \in trgs : TRUE
             r == TriggerBody(db, t, oldId, newId, newVal, orReplace)
         IN  IF r.rc # "OK" THEN r
             ELSE FireAll(r.db, trgs \ {t}, oldId, newId, newVal, orReplace)

\* The AFTER triggers of one kind on one table. The UPDATE trigger is
\* AFTER UPDATE OF [column]: it fires only when the statement assigns that column.
TriggersOn(db, table, kind) == {t \in db.triggers : t.table = table /\ t.kind = kind}

\* A failed statement changes nothing.
Atomic(db, r) == IF r.rc = "OK" THEN r ELSE SqlErr(db)

\* INSERT [OR REPLACE] INTO table (rowid, column) VALUES (id, v). REPLACE deletes
\* the row in the way; its delete triggers fire only under recursive_triggers.
InsertRow(db, table, id, v, orReplace, recursive) ==
    IF db.rows[table][id] # Absent /\ ~orReplace THEN SqlErr(db)
    ELSE LET gone == IF db.rows[table][id] # Absent /\ recursive
                     THEN FireAll([db EXCEPT !.rows[table][id] = Absent],
                                  TriggersOn(db, table, "DELETE"), id, id, Absent, orReplace)
                     ELSE SqlOk(db)
         IN  IF gone.rc # "OK" THEN SqlErr(db)
             ELSE Atomic(db, FireAll([gone.db EXCEPT !.rows[table][id] = v],
                                     TriggersOn(db, table, "INSERT"), id, id, v, orReplace))

\* UPDATE table SET rowid = newId [, column = v] WHERE rowid = id
UpdateRow(db, table, id, newId, setC, v) ==
    IF db.rows[table][id] = Absent THEN SqlOk(db)
    ELSE IF newId # id /\ db.rows[table][newId] # Absent THEN SqlErr(db)
    ELSE LET newVal == IF setC THEN v ELSE db.rows[table][id]
             moved == [db EXCEPT !.rows[table] = [[@ EXCEPT ![id] = Absent] EXCEPT ![newId] = newVal]]
         IN  IF setC
             THEN Atomic(db, FireAll(moved, TriggersOn(db, table, "UPDATE"),
                                     id, newId, newVal, FALSE))
             ELSE SqlOk(moved)

\* DELETE FROM table WHERE rowid = id
DeleteRow(db, table, id) ==
    IF db.rows[table][id] = Absent THEN SqlOk(db)
    ELSE Atomic(db, FireAll([db EXCEPT !.rows[table][id] = Absent],
                            TriggersOn(db, table, "DELETE"), id, id, Absent, FALSE))

----------------------------------------------------------------------------
(* The spatial-index state machine *)

CurrentDb == Db(rows, rtrees, triggers, spStack)

\* again: the operation is a helper call that follows a successful call of the
\* same helper with nothing in between.
Last(op, a1, a2, ctx, ff, sf, nexec, again) ==
    [op |-> op, a1 |-> a1, a2 |-> a2, ctx |-> ctx, ff |-> ff, sf |-> sf, nexec |-> nexec,
     again |-> again]
StmtDone(op, rc) ==
    Last(op, NullValue, NullValue, Ctx(IF rc = "OK" THEN "done" ELSE "error", "", NoStmt),
         NoStmt, {}, 1, FALSE)

IndexArgv == <<TextValue(BaseTable), TextValue(GeomColumn)>>

\* The statements the host may fail for reasons of its own during one call: at most
\* one of those that report to the context, and any of the two of rollback_savepoint.
RollbackStmts(savepoint) ==
    {Sql("ROLLBACK_TO", savepoint, <<>>, <<>>, <<>>), Sql("RELEASE", savepoint, <<>>, <<>>, <<>>)}
Range(f) == {f[i] : i \in DOMAIN f}
EnvChoices(savepoint, stmts) ==
    {one \cup rb : one \in {{}} \cup {{x} : x \in Range(stmts)
                                        \cup {Sql("SAVEPOINT", savepoint, <<>>, <<>>, <<>>)}},
                   rb \in SUBSET RollbackStmts(savepoint)}

CallsInit ==
    /\ call = [pc |-> "idle", name |-> "", xfunc |-> "", argv |-> <<>>,
               ctx |-> CtxUnset, reached |-> FALSE, panicked |-> FALSE]
    /\ connAlive = TRUE
RegInit ==
    /\ regPc = "idle"
    /\ regIdx = 1
    /\ registered = {}
    /\ regRc = "none"

\* A connection on a database that holds the empty base table and nothing else.
IndexInit ==
    /\ rows = [t \in Tables |-> [id \in RowIds |-> Absent]]
    /\ rtrees = <<>>
    /\ triggers = {}
    /\ spStack = <<>>
    /\ recTriggers = FALSE
    /\ sinceCreate = FALSE
    /\ last = Last("open", NullValue, NullValue, CtxUnset, NoStmt, {}, 0, FALSE)

\* No function of geolite-core has been called.
GeoInit ==
    geo = [op |-> "none", a |-> <<>>, b |-> <<>>, s |-> <<>>, out |-> <<>>]

Init == IndexInit /\ CallsInit /\ RegInit /\ GeoInit

SetDb(db) ==
    /\ rows' = db.rows
    /\ rtrees' = db.rtrees
    /\ triggers' = db.triggers
    /\ spStack' = db.sp

HelperReturn(op, argv, st) ==
    /\ SetDb(st.db)
    /\ last' = Last(op, argv[1], argv[2], st.ctx, st.ff, st.sf, st.nexec,
                    last.op = op /\ last.ctx = set_i32(1))
    /\ sinceCreate' = (op = "CreateSpatialIndex" /\ st.ctx.kind = "int")
    /\ UNCHANGED <<geo, recTriggers, call, connAlive, regPc, regIdx, registered, regRc>>

\* SELECT CreateSpatialIndex(table, column)
CreateSpatialIndex(argv, env) ==
    /\ Len(spStack) < MaxStack
    /\ HelperReturn("CreateSpatialIndex", argv, create_spatial_index_xfunc(CurrentDb, argv, env))

\* SELECT DropSpatialIndex(table, column)
DropSpatialIndex(argv, env) ==
    /\ Len(spStack) < MaxStack
    /\ HelperReturn("DropSpatialIndex", argv, drop_spatial_index_xfunc(CurrentDb, argv, env))

StmtReturn(op, r, keeps) ==
    /\ SetDb(r.db)
    /\ last' = StmtDone(op, r.rc)
    /\ sinceCreate' = (sinceCreate /\ keeps)
    /\ UNCHANGED <<geo, recTriggers, call, connAlive, regPc, regIdx, registered, regRc>>

\* INSERT [OR REPLACE] INTO t (rowid, g) VALUES (id, v)
Insert(id, v, orReplace) ==
    /\ id \in RowIds
    /\ StmtReturn("INSERT", InsertRow(CurrentDb, BaseTable, id, v, orReplace, recTriggers), TRUE)

\* UPDATE t SET g = v WHERE rowid = id
UpdateColumn(id, v) ==
    /\ id \in RowIds
    /\ StmtReturn("UPDATE", UpdateRow(CurrentDb, BaseTable, id, id, TRUE, v), TRUE)

\* UPDATE t SET rowid = newId WHERE rowid = id: no UPDATE OF the indexed column
UpdateRowid(id, newId) ==
    /\ newId # id
    /\ StmtReturn("UPDATE_ROWID", UpdateRow(CurrentDb, BaseTable, id, newId, FALSE, "NULL"), FALSE)

\* DELETE FROM t WHERE rowid = id
Delete(id) ==
    /\ id \in RowIds
    /\ StmtReturn("DELETE", DeleteRow(CurrentDb, BaseTable, id), TRUE)

\* SAVEPOINT user_tx, by the user
UserSavepoint ==
    /\ Len(spStack) < MaxStack
    /\ StmtReturn("SAVEPOINT",
                  ApplySql(CurrentDb, CurrentDb, Sql("SAVEPOINT", "user_tx", <<>>, <<>>, <<>>)),
                  TRUE)

\* RELEASE user_tx, by the user
UserRelease ==
    /\ LastIndexOf(spStack, "user_tx") # 0
    /\ StmtReturn("RELEASE",
                  ApplySql(CurrentDb, CurrentDb, Sql("RELEASE", "user_tx", <<>>, <<>>, <<>>)),
                  TRUE)

\* PRAGMA recursive_triggers = b
PragmaRecursiveTriggers(b) ==
    /\ recTriggers # b
    /\ recTriggers' = b
    /\ last' = StmtDone("PRAGMA", "OK")
    /\ UNCHANGED <<geo, rows, rtrees, triggers, spStack, sinceCreate,
                   call, connAlive, regPc, regIdx, registered, regRc>>

\* The helpers with every statement succeeding, and the statements on the table.
Next ==
    \/ CreateSpatialIndex(IndexArgv, {})
    \/ DropSpatialIndex(IndexArgv, {})
    \/ \E id \in RowIds, v \in Vals, orReplace \in BOOLEAN : Insert(id, v, orReplace)
    \/ \E id \in RowIds, v \in Vals : UpdateColumn(id, v)
    \/ \E id \in RowIds, newId \in RowIds : UpdateRowid(id, newId)
    \/ \E id \in RowIds : Delete(id)
    \/ \E b \in BOOLEAN : PragmaRecursiveTriggers(b)

Spec == Init /\ [][Next]_vars

\* The helpers inside the user's savepoints, with statements that fail.
NextTxn ==
    \/ \E env \in EnvChoices(CreateSavepoint, CreateStatements(BaseTable, GeomColumn)) :
          CreateSpatialIndex(IndexArgv, env)
    \/ \E env \in EnvChoices(DropSavepoint, DropStatements(BaseTable, GeomColumn)) :
          DropSpatialIndex(IndexArgv, env)
    \/ \E v \in {"gA", "INVALID"} : Insert(1, v, FALSE)
    \/ UserSavepoint
    \/ UserRelease

SpecTxn == Init /\ [][NextTxn]_vars

----------------------------------------------------------------------------
(* The helpers on arbitrary identifier bytes *)

\* 't', '_', ' ', and the two bytes of U+00E9
IdentBytes == {116, 95, 32, 195, 169}

RECURSIVE ByteStrings(_)
ByteStrings(n) ==
    IF n = 0 THEN {<<>>}
    ELSE ByteStrings(n - 1)
         \cup {Append(b, x) : b \in {y \in ByteStrings(n - 1) : Len(y) = n - 1}, x \in IdentBytes}

IdentValues == {NullValue} \cup {TextValue(b) : b \in ByteStrings(MaxIdentLen)}

\* The table and column that exist, and one name varied against each of them.
IdentArgvs ==
    {IndexArgv} \cup UNION {{<<v, TextValue(GeomColumn)>>, <<TextValue(BaseTable), v>>} :
                               v \in IdentValues}

NextIdent ==
    \/ \E argv \in IdentArgvs : CreateSpatialIndex(argv, {})
    \/ \E argv \in IdentArgvs : DropSpatialIndex(argv, {})

SpecIdent == Init /\ [][NextIdent]_vars

----------------------------------------------------------------------------
(* One call of a registered callback *)

PANIC_IN_CALLBACK_MSG == "panic in SQLite callback"

Blob == [k |-> "blob", n |-> ""]
F64(n) == [k |-> "f64", n |-> n]
I32(n) == [k |-> "i32", n |-> n]
Text(n) == [k |-> "text", n |-> n]
Xfunc(xfunc, label, pre, args) == [xfunc |-> xfunc, label |-> label, pre |-> pre, args |-> args]
Reg(name, n_arg, xfunc) == [name |-> name, n_arg |-> n_arg, xfunc |-> xfunc]
SqliteFunctionSpec(name, n_arg) == [name |-> name, n_arg |-> n_arg]

\* The callbacks ffi.rs defines, by symbol: the label handed to xfunc_guard, whether
\* the body opens with any_arg_is_null, and the arguments in the order the body
\* extracts them.

Callbacks ==
    {
      Xfunc("st_geomfromtext_2_xfunc", "ST_GeomFromText", FALSE, <<Text("wkt"), I32("srid")>>),
      Xfunc("st_geomfromtext_1_xfunc", "ST_GeomFromText", FALSE, <<Text("wkt")>>),
      Xfunc("st_geomfromwkb_1_xfunc", "ST_GeomFromWKB", FALSE, <<Blob>>),
      Xfunc("st_geomfromwkb_2_xfunc", "ST_GeomFromWKB", FALSE, <<Blob, I32("srid")>>),
      Xfunc("st_geomfromewkb_xfunc", "ST_GeomFromEWKB", FALSE, <<Blob>>),
      Xfunc("st_geomfromgeojson_xfunc", "ST_GeomFromGeoJSON", FALSE, <<Text("json")>>),
      Xfunc("st_astext_xfunc", "ST_AsText", FALSE, <<Blob>>),
      Xfunc("st_asewkt_xfunc", "ST_AsEWKT", FALSE, <<Blob>>),
      Xfunc("st_asbinary_xfunc", "ST_AsBinary", FALSE, <<Blob>>),
      Xfunc("st_asewkb_xfunc", "ST_AsEWKB", FALSE, <<Blob>>),
      Xfunc("st_asgeojson_xfunc", "ST_AsGeoJSON", FALSE, <<Blob>>),
      Xfunc("st_point_2_xfunc", "ST_Point", TRUE, <<F64("x"), F64("y")>>),
      Xfunc("st_point_3_xfunc", "ST_Point", TRUE, <<F64("x"), F64("y"), I32("srid")>>),
      Xfunc("st_makeline_xfunc", "ST_MakeLine", FALSE, <<Blob, Blob>>),
      Xfunc("st_makepolygon_xfunc", "ST_MakePolygon", FALSE, <<Blob>>),
      Xfunc("st_makeenvelope_4_xfunc", "ST_MakeEnvelope", TRUE, <<F64("xmin"), F64("ymin"), F64("xmax"), F64("ymax")>>),
      Xfunc("st_makeenvelope_5_xfunc", "ST_MakeEnvelope", TRUE, <<F64("xmin"), F64("ymin"), F64("xmax"), F64("ymax"), I32("srid")>>),
      Xfunc("st_collect_xfunc", "ST_Collect", FALSE, <<Blob, Blob>>),
      Xfunc("st_tileenvelope_xfunc", "ST_TileEnvelope", FALSE, <<I32("zoom"), I32("tile x"), I32("tile y")>>),
      Xfunc("st_srid_xfunc", "ST_SRID", FALSE, <<Blob>>),
      Xfunc("st_setsrid_xfunc", "ST_SetSRID", FALSE, <<Blob, I32("srid")>>),
      Xfunc("st_geometrytype_xfunc", "ST_GeometryType", FALSE, <<Blob>>),
      Xfunc("st_ndims_xfunc", "ST_NDims", FALSE, <<Blob>>),
      Xfunc("st_coorddim_xfunc", "ST_CoordDim", FALSE, <<Blob>>),
      Xfunc("st_zmflag_xfunc", "ST_Zmflag", FALSE, <<Blob>>),
      Xfunc("st_isempty_xfunc", "ST_IsEmpty", FALSE, <<Blob>>),
      Xfunc("st_memsize_xfunc", "ST_MemSize", FALSE, <<Blob>>),
      Xfunc("st_x_xfunc", "ST_X", FALSE, <<Blob>>),
      Xfunc("st_y_xfunc", "ST_Y", FALSE, <<Blob>>),
      Xfunc("st_numpoints_xfunc", "ST_NumPoints", FALSE, <<Blob>>),
      Xfunc("st_npoints_xfunc", "ST_NPoints", FALSE, <<Blob>>),
      Xfunc("st_numgeometries_xfunc", "ST_NumGeometries", FALSE, <<Blob>>),
      Xfunc("st_numinteriorrings_xfunc", "ST_NumInteriorRings", FALSE, <<Blob>>),
      Xfunc("st_numrings_xfunc", "ST_NumRings", FALSE, <<Blob>>),
      Xfunc("st_pointn_xfunc", "ST_PointN", FALSE, <<Blob, I32("n")>>),
      Xfunc("st_startpoint_xfunc", "ST_StartPoint", FALSE, <<Blob>>),
      Xfunc("st_endpoint_xfunc", "ST_EndPoint", FALSE, <<Blob>>),
      Xfunc("st_exteriorring_xfunc", "ST_ExteriorRing", FALSE, <<Blob>>),
      Xfunc("st_interiorringn_xfunc", "ST_InteriorRingN", FALSE, <<Blob, I32("n")>>),
      Xfunc("st_geometryn_xfunc", "ST_GeometryN", FALSE, <<Blob, I32("n")>>),
      Xfunc("st_dimension_xfunc", "ST_Dimension", FALSE, <<Blob>>),
      Xfunc("st_envelope_xfunc", "ST_Envelope", FALSE, <<Blob>>),
      Xfunc("st_isvalid_xfunc", "ST_IsValid", FALSE, <<Blob>>),
      Xfunc("st_isvalidreason_xfunc", "ST_IsValidReason", FALSE, <<Blob>>),
      Xfunc("st_area_xfunc", "ST_Area", FALSE, <<Blob>>),
      Xfunc("st_length_xfunc", "ST_Length", FALSE, <<Blob>>),
      Xfunc("st_perimeter_xfunc", "ST_Perimeter", FALSE, <<Blob>>),
      Xfunc("st_distance_xfunc", "ST_Distance", FALSE, <<Blob, Blob>>),
      Xfunc("st_centroid_xfunc", "ST_Centroid", FALSE, <<Blob>>),
      Xfunc("st_pointonsurface_xfunc", "ST_PointOnSurface", FALSE, <<Blob>>),
      Xfunc("st_hausdorffdistance_xfunc", "ST_HausdorffDistance", FALSE, <<Blob, Blob>>),
      Xfunc("st_xmin_xfunc", "ST_XMin", FALSE, <<Blob>>),
      Xfunc("st_xmax_xfunc", "ST_XMax", FALSE, <<Blob>>),
      Xfunc("st_ymin_xfunc", "ST_YMin", FALSE, <<Blob>>),
      Xfunc("st_ymax_xfunc", "ST_YMax", FALSE, <<Blob>>),
      Xfunc("st_distancesphere_xfunc", "ST_DistanceSphere", FALSE, <<Blob, Blob>>),
      Xfunc("st_distancespheroid_xfunc", "ST_DistanceSpheroid", FALSE, <<Blob, Blob>>),
      Xfunc("st_lengthsphere_xfunc", "ST_LengthSphere", FALSE, <<Blob>>),
      Xfunc("st_azimuth_xfunc", "ST_Azimuth", FALSE, <<Blob, Blob>>),
      Xfunc("st_project_xfunc", "ST_Project", FALSE, <<Blob, F64("distance"), F64("azimuth")>>),
      Xfunc("st_closestpoint_xfunc", "ST_ClosestPoint", FALSE, <<Blob, Blob>>),
      Xfunc("st_union_xfunc", "ST_Union", FALSE, <<Blob, Blob>>),
      Xfunc("st_intersection_xfunc", "ST_Intersection", FALSE, <<Blob, Blob>>),
      Xfunc("st_difference_xfunc", "ST_Difference", FALSE, <<Blob, Blob>>),
      Xfunc("st_symdifference_xfunc", "ST_SymDifference", FALSE, <<Blob, Blob>>),
      Xfunc("st_buffer_xfunc", "ST_Buffer", FALSE, <<Blob, F64("distance")>>),
      Xfunc("st_intersects_xfunc", "ST_Intersects", FALSE, <<Blob, Blob>>),
      Xfunc("st_contains_xfunc", "ST_Contains", FALSE, <<Blob, Blob>>),
      Xfunc("st_within_xfunc", "ST_Within", FALSE, <<Blob, Blob>>),
      Xfunc("st_disjoint_xfunc", "ST_Disjoint", FALSE, <<Blob, Blob>>),
      Xfunc("st_dwithin_xfunc", "ST_DWithin", FALSE, <<Blob, Blob, F64("distance")>>),
      Xfunc("st_covers_xfunc", "ST_Covers", FALSE, <<Blob, Blob>>),
      Xfunc("st_coveredby_xfunc", "ST_CoveredBy", FALSE, <<Blob, Blob>>),
      Xfunc("st_equals_xfunc", "ST_Equals", FALSE, <<Blob, Blob>>),
      Xfunc("st_touches_xfunc", "ST_Touches", FALSE, <<Blob, Blob>>),
      Xfunc("st_crosses_xfunc", "ST_Crosses", FALSE, <<Blob, Blob>>),
      Xfunc("st_overlaps_xfunc", "ST_Overlaps", FALSE, <<Blob, Blob>>),
      Xfunc("st_relate_2_xfunc", "ST_Relate", FALSE, <<Blob, Blob>>),
      Xfunc("st_relate_3_xfunc", "ST_Relate", FALSE, <<Blob, Blob, Text("pattern")>>),
      Xfunc("st_relatematch_xfunc", "ST_RelateMatch", FALSE, <<Text("matrix"), Text("pattern")>>) }

deterministic_callbacks ==
    <<
      Reg("ST_GeomFromText", 1, "st_geomfromtext_1_xfunc"),
      Reg("ST_GeomFromText", 2, "st_geomfromtext_2_xfunc"),
      Reg("ST_GeomFromWKB", 1, "st_geomfromwkb_1_xfunc"),
      Reg("ST_GeomFromWKB", 2, "st_geomfromwkb_2_xfunc"),
      Reg("ST_GeomFromEWKB", 1, "st_geomfromewkb_xfunc"),
      Reg("ST_GeomFromGeoJSON", 1, "st_geomfromgeojson_xfunc"),
      Reg("ST_AsText", 1, "st_astext_xfunc"),
      Reg("ST_AsEWKT", 1, "st_asewkt_xfunc"),
      Reg("ST_AsBinary", 1, "st_asbinary_xfunc"),
      Reg("ST_AsEWKB", 1, "st_asewkb_xfunc"),
      Reg("ST_AsGeoJSON", 1, "st_asgeojson_xfunc"),
      Reg("ST_Point", 2, "st_point_2_xfunc"),
      Reg("ST_Point", 3, "st_point_3_xfunc"),
      Reg("ST_MakePoint", 2, "st_point_2_xfunc"),
      Reg("ST_MakeLine", 2, "st_makeline_xfunc"),
      Reg("ST_MakePolygon", 1, "st_makepolygon_xfunc"),
      Reg("ST_MakeEnvelope", 4, "st_makeenvelope_4_xfunc"),
      Reg("ST_MakeEnvelope", 5, "st_makeenvelope_5_xfunc"),
      Reg("ST_Collect", 2, "st_collect_xfunc"),
      Reg("ST_TileEnvelope", 3, "st_tileenvelope_xfunc"),
      Reg("ST_SRID", 1, "st_srid_xfunc"),
      Reg("ST_SetSRID", 2, "st_setsrid_xfunc"),
      Reg("ST_GeometryType", 1, "st_geometrytype_xfunc"),
      Reg("GeometryType", 1, "st_geometrytype_xfunc"),
      Reg("ST_NDims", 1, "st_ndims_xfunc"),
      Reg("ST_CoordDim", 1, "st_coorddim_xfunc"),
      Reg("ST_Zmflag", 1, "st_zmflag_xfunc"),
      Reg("ST_IsEmpty", 1, "st_isempty_xfunc"),
      Reg("ST_MemSize", 1, "st_memsize_xfunc"),
      Reg("ST_X", 1, "st_x_xfunc"),
      Reg("ST_Y", 1, "st_y_xfunc"),
      Reg("ST_NumPoints", 1, "st_numpoints_xfunc"),
      Reg("ST_NPoints", 1, "st_npoints_xfunc"),
      Reg("ST_NumGeometries", 1, "st_numgeometries_xfunc"),
      Reg("ST_NumInteriorRings", 1, "st_numinteriorrings_xfunc"),
      Reg("ST_NumInteriorRing", 1, "st_numinteriorrings_xfunc"),
      Reg("ST_NumRings", 1, "st_numrings_xfunc"),
      Reg("ST_PointN", 2, "st_pointn_xfunc"),
      Reg("ST_StartPoint", 1, "st_startpoint_xfunc"),
      Reg("ST_EndPoint", 1, "st_endpoint_xfunc"),
      Reg("ST_ExteriorRing", 1, "st_exteriorring_xfunc"),
      Reg("ST_InteriorRingN", 2, "st_interiorringn_xfunc"),
      Reg("ST_GeometryN", 2, "st_geometryn_xfunc"),
      Reg("ST_Dimension", 1, "st_dimension_xfunc"),
      Reg("ST_Envelope", 1, "st_envelope_xfunc"),
      Reg("ST_IsValid", 1, "st_isvalid_xfunc"),
      Reg("ST_IsValidReason", 1, "st_isvalidreason_xfunc"),
      Reg("ST_Area", 1, "st_area_xfunc"),
      Reg("ST_Length", 1, "st_length_xfunc"),
      Reg("ST_Length2D", 1, "st_length_xfunc"),
      Reg("ST_Perimeter", 1, "st_perimeter_xfunc"),
      Reg("ST_Perimeter2D", 1, "st_perimeter_xfunc"),
      Reg("ST_Distance", 2, "st_distance_xfunc"),
      Reg("ST_Centroid", 1, "st_centroid_xfunc"),
      Reg("ST_PointOnSurface", 1, "st_pointonsurface_xfunc"),
      Reg("ST_HausdorffDistance", 2, "st_hausdorffdistance_xfunc"),
      Reg("ST_XMin", 1, "st_xmin_xfunc"),
      Reg("ST_XMax", 1, "st_xmax_xfunc"),
      Reg("ST_YMin", 1, "st_ymin_xfunc"),
      Reg("ST_YMax", 1, "st_ymax_xfunc"),
      Reg("ST_DistanceSphere", 2, "st_distancesphere_xfunc"),
      Reg("ST_DistanceSpheroid", 2, "st_distancespheroid_xfunc"),
      Reg("ST_LengthSphere", 1, "st_lengthsphere_xfunc"),
      Reg("ST_Azimuth", 2, "st_azimuth_xfunc"),
      Reg("ST_Project", 3, "st_project_xfunc"),
      Reg("ST_ClosestPoint", 2, "st_closestpoint_xfunc"),
      Reg("ST_Union", 2, "st_union_xfunc"),
      Reg("ST_Intersection", 2, "st_intersection_xfunc"),
      Reg("ST_Difference", 2, "st_difference_xfunc"),
      Reg("ST_SymDifference", 2, "st_symdifference_xfunc"),
      Reg("ST_Buffer", 2, "st_buffer_xfunc"),
      Reg("ST_Intersects", 2, "st_intersects_xfunc"),
      Reg("ST_Contains", 2, "st_contains_xfunc"),
      Reg("ST_Within", 2, "st_within_xfunc"),
      Reg("ST_Disjoint", 2, "st_disjoint_xfunc"),
      Reg("ST_DWithin", 3, "st_dwithin_xfunc"),
      Reg("ST_Covers", 2, "st_covers_xfunc"),
      Reg("ST_CoveredBy", 2, "st_coveredby_xfunc"),
      Reg("ST_Equals", 2, "st_equals_xfunc"),
      Reg("ST_Touches", 2, "st_touches_xfunc"),
      Reg("ST_Crosses", 2, "st_crosses_xfunc"),
      Reg("ST_Overlaps", 2, "st_overlaps_xfunc"),
      Reg("ST_Relate", 2, "st_relate_2_xfunc"),
      Reg("ST_Relate", 3, "st_relate_3_xfunc"),
      Reg("ST_RelateMatch", 2, "st_relatematch_xfunc") >>

direct_only_callbacks ==
    <<
      Reg("CreateSpatialIndex", 2, "create_spatial_index_xfunc"),
      Reg("DropSpatialIndex", 2, "drop_spatial_index_xfunc") >>

SQLITE_DETERMINISTIC_FUNCTIONS ==
    <<
      SqliteFunctionSpec("ST_GeomFromText", 1),
      SqliteFunctionSpec("ST_GeomFromText", 2),
      SqliteFunctionSpec("ST_GeomFromWKB", 1),
      SqliteFunctionSpec("ST_GeomFromWKB", 2),
      SqliteFunctionSpec("ST_GeomFromEWKB", 1),
      SqliteFunctionSpec("ST_GeomFromGeoJSON", 1),
      SqliteFunctionSpec("ST_AsText", 1),
      SqliteFunctionSpec("ST_AsEWKT", 1),
      SqliteFunctionSpec("ST_AsBinary", 1),
      SqliteFunctionSpec("ST_AsEWKB", 1),
      SqliteFunctionSpec("ST_AsGeoJSON", 1),
      SqliteFunctionSpec("ST_Point", 2),
      SqliteFunctionSpec("ST_Point", 3),
      SqliteFunctionSpec("ST_MakePoint", 2),
      SqliteFunctionSpec("ST_MakeLine", 2),
      SqliteFunctionSpec("ST_MakePolygon", 1),
      SqliteFunctionSpec("ST_MakeEnvelope", 4),
      SqliteFunctionSpec("ST_MakeEnvelope", 5),
      SqliteFunctionSpec("ST_Collect", 2),
      SqliteFunctionSpec("ST_TileEnvelope", 3),
      SqliteFunctionSpec("ST_SRID", 1),
      SqliteFunctionSpec("ST_SetSRID", 2),
      SqliteFunctionSpec("ST_GeometryType", 1),
      SqliteFunctionSpec("GeometryType", 1),
      SqliteFunctionSpec("ST_NDims", 1),
      SqliteFunctionSpec("ST_CoordDim", 1),
      SqliteFunctionSpec("ST_Zmflag", 1),
      SqliteFunctionSpec("ST_IsEmpty", 1),
      SqliteFunctionSpec("ST_MemSize", 1),
      SqliteFunctionSpec("ST_X", 1),
      SqliteFunctionSpec("ST_Y", 1),
      SqliteFunctionSpec("ST_NumPoints", 1),
      SqliteFunctionSpec("ST_NPoints", 1),
      SqliteFunctionSpec("ST_NumGeometries", 1),
      SqliteFunctionSpec("ST_NumInteriorRings", 1),
      SqliteFunctionSpec("ST_NumInteriorRing", 1),
      SqliteFunctionSpec("ST_NumRings", 1),
      SqliteFunctionSpec("ST_PointN", 2),
      SqliteFunctionSpec("ST_StartPoint", 1),
      SqliteFunctionSpec("ST_EndPoint", 1),
      SqliteFunctionSpec("ST_ExteriorRing", 1),
      SqliteFunctionSpec("ST_InteriorRingN", 2),
      SqliteFunctionSpec("ST_GeometryN", 2),
      SqliteFunctionSpec("ST_Dimension", 1),
      SqliteFunctionSpec("ST_Envelope", 1),
      SqliteFunctionSpec("ST_IsValid", 1),
      SqliteFunctionSpec("ST_IsValidReason", 1),
      SqliteFunctionSpec("ST_Area", 1),
      SqliteFunctionSpec("ST_Length", 1),
      SqliteFunctionSpec("ST_Length2D", 1),
      SqliteFunctionSpec("ST_Perimeter", 1),
      SqliteFunctionSpec("ST_Perimeter2D", 1),
      SqliteFunctionSpec("ST_Distance", 2),
      SqliteFunctionSpec("ST_Centroid", 1),
      SqliteFunctionSpec("ST_PointOnSurface", 1),
      SqliteFunctionSpec("ST_HausdorffDistance", 2),
      SqliteFunctionSpec("ST_XMin", 1),
      SqliteFunctionSpec("ST_XMax", 1),
      SqliteFunctionSpec("ST_YMin", 1),
      SqliteFunctionSpec("ST_YMax", 1),
      SqliteFunctionSpec("ST_DistanceSphere", 2),
      SqliteFunctionSpec("ST_DistanceSpheroid", 2),
      SqliteFunctionSpec("ST_LengthSphere", 1),
      SqliteFunctionSpec("ST_Azimuth", 2),
      SqliteFunctionSpec("ST_Project", 3),
      SqliteFunctionSpec("ST_ClosestPoint", 2),
      SqliteFunctionSpec("ST_Union", 2),
      SqliteFunctionSpec("ST_Intersection", 2),
      SqliteFunctionSpec("ST_Difference", 2),
      SqliteFunctionSpec("ST_SymDifference", 2),
      SqliteFunctionSpec("ST_Buffer", 2),
      SqliteFunctionSpec("ST_Intersects", 2),
      SqliteFunctionSpec("ST_Contains", 2),
      SqliteFunctionSpec("ST_Within", 2),
      SqliteFunctionSpec("ST_Disjoint", 2),
      SqliteFunctionSpec("ST_DWithin", 3),
      SqliteFunctionSpec("ST_Covers", 2),
      SqliteFunctionSpec("ST_CoveredBy", 2),
      SqliteFunctionSpec("ST_Equals", 2),
      SqliteFunctionSpec("ST_Touches", 2),
      SqliteFunctionSpec("ST_Crosses", 2),
      SqliteFunctionSpec("ST_Overlaps", 2),
      SqliteFunctionSpec("ST_Relate", 2),
      SqliteFunctionSpec("ST_Relate", 3),
      SqliteFunctionSpec("ST_RelateMatch", 2) >>

SQLITE_DIRECT_ONLY_FUNCTIONS ==
    <<
      SqliteFunctionSpec("CreateSpatialIndex", 2),
      SqliteFunctionSpec("DropSpatialIndex", 2) >>

\* The two helpers, whose bodies are create_spatial_index_xfunc and
\* drop_spatial_index_xfunc above; both read their names through get_table_column.
HelperCallbacks ==
    { Xfunc("create_spatial_index_xfunc", "CreateSpatialIndex", FALSE,
            <<Text("table"), Text("column")>>),
      Xfunc("drop_spatial_index_xfunc", "DropSpatialIndex", FALSE,
            <<Text("table"), Text("column")>>) }

CallbackOf(xfunc) == CHOOSE cb \in Callbacks \cup HelperCallbacks : cb.xfunc = xfunc

get_f64_arg(v) ==
    IF v.cls = "NULL" THEN "Null"
    ELSE IF v.cls \in {"INTEGER", "FLOAT"} THEN "Value"
    ELSE "InvalidType"

get_i32_arg(v) ==
    IF v.cls = "NULL" THEN "Null"
    ELSE IF v.cls = "INTEGER" THEN "Value"
    ELSE "InvalidType"

\* The require_* functions: the value is there, or the result slot has been set.
require_f64_arg(v, fn_name, arg_name) ==
    LET a == get_f64_arg(v)
    IN  IF a = "Value" THEN [some |-> TRUE, ctx |-> CtxUnset]
        ELSE IF a = "Null" THEN [some |-> FALSE, ctx |-> set_null]
        ELSE [some |-> FALSE, ctx |-> set_error(fn_name, arg_name \o " must be numeric")]

require_i32_arg(v, fn_name, arg_name) ==
    LET a == get_i32_arg(v)
    IN  IF a = "Value" THEN [some |-> TRUE, ctx |-> CtxUnset]
        ELSE IF a = "Null" THEN [some |-> FALSE, ctx |-> set_null]
        ELSE [some |-> FALSE, ctx |-> set_error(fn_name, arg_name \o " must be integer")]

require_text_arg(v, fn_name, arg_name) ==
    LET a == get_text(v)
    IN  IF a.tag = "Value" THEN [some |-> TRUE, ctx |-> CtxUnset]
        ELSE IF a.tag = "Null" THEN [some |-> FALSE, ctx |-> set_null]
        ELSE [some |-> FALSE, ctx |-> set_error(fn_name, arg_name \o " must be valid UTF-8 text")]

any_arg_is_null(argv) == \E i \in 1..Len(argv) : argv[i].cls = "NULL"

\* The arguments of a body, extracted one after the other; the first that is
\* missing ends the body with the result its extractor set.
RECURSIVE ExtractArgs(_, _, _)
ExtractArgs(cb, argv, i) ==
    IF i > Len(cb.args) THEN [some |-> TRUE, ctx |-> CtxUnset]
    ELSE LET a == cb.args[i]
             r == IF a.k = "blob"
                  THEN IF get_blob(argv[i]).tag = "Some"
                       THEN [some |-> TRUE, ctx |-> CtxUnset]
                       ELSE [some |-> FALSE, ctx |-> set_null]
                  ELSE IF a.k = "f64" THEN require_f64_arg(argv[i], cb.label, a.n)
                  ELSE IF a.k = "i32" THEN require_i32_arg(argv[i], cb.label, a.n)
                  ELSE require_text_arg(argv[i], cb.label, a.n)
         IN  IF r.some THEN ExtractArgs(cb, argv, i + 1) ELSE r

\* Sample contents: the bytes of a well-formed EWKB (no valid UTF-8), of a
\* well-formed text input, and the decimal renderings of 1 and 1.0.
EwkbSample == <<1, 240>>
TextSample == <<80>>
IntegerValue == SqlValue("INTEGER", <<49>>)
FloatValue == SqlValue("FLOAT", <<49, 46, 48>>)
CallValues ==
    {NullValue, IntegerValue, FloatValue, TextValue(TextSample), TextValue(EwkbSample),
     BlobValue(EwkbSample), BlobValue(TextSample)}

\* The algebra on the extracted arguments: it parses the geometry and text bytes
\* it is handed and takes the two sample numbers.
AlgebraAccepts(cb, argv) ==
    \A i \in 1..Len(cb.args) :
        /\ cb.args[i].k = "blob" => get_blob(argv[i]).b = EwkbSample
        /\ cb.args[i].k = "text" => get_text(argv[i]).s = TextSample

Outcome(ctx, reached, panicked) == [ctx |-> ctx, reached |-> reached, panicked |-> panicked]

\* The closure a callback hands to xfunc_guard. panics: the algebra panics.
CallbackBody(cb, argv, panics) ==
    IF cb.pre /\ any_arg_is_null(argv) THEN Outcome(set_null, FALSE, FALSE)
    ELSE LET e == ExtractArgs(cb, argv, 1)
         IN  IF ~e.some THEN Outcome(e.ctx, FALSE, FALSE)
             ELSE IF panics THEN Outcome(CtxUnset, TRUE, TRUE)
             ELSE IF AlgebraAccepts(cb, argv) THEN Outcome(Ctx("value", "", NoStmt), TRUE, FALSE)
             ELSE Outcome(set_error(cb.label, "invalid input"), TRUE, FALSE)

XfuncGuardNoCatch(label, r) ==
    [ctx |-> r.ctx, reached |-> r.reached, panicked |-> r.panicked, alive |-> ~r.panicked]

\* catch_unwind around the closure: a panic becomes the callback's error.
xfunc_guard(label, r) ==
    [ctx |-> IF r.panicked THEN set_error(label, PANIC_IN_CALLBACK_MSG) ELSE r.ctx,
     reached |-> r.reached, panicked |-> r.panicked, alive |-> TRUE]

Call(pc, name, xfunc, argv, r) ==
    [pc |-> pc, name |-> name, xfunc |-> xfunc, argv |-> argv,
     ctx |-> r.ctx, reached |-> r.reached, panicked |-> r.panicked]
CallIdle == Call("idle", "", "", <<>>, Outcome(CtxUnset, FALSE, FALSE))

\* SQLite calls the callback registered under (name, n_arg) on n_arg values.
Invoke(e, argv, panics) ==
    /\ LET cb == CallbackOf(e.xfunc)
           r == xfunc_guard(cb.label, CallbackBody(cb, argv, panics))
       IN  /\ call' = Call("returned", e.name, e.xfunc, argv, r)
           /\ connAlive' = r.alive
    /\ UNCHANGED <<geo, rows, rtrees, triggers, spStack, recTriggers, sinceCreate, last,
                   regPc, regIdx, registered, regRc>>

\* The same for a helper: the closure reads the names, then runs its statements.
InvokeHelper(e, argv, panics) ==
    /\ LET cb == CallbackOf(e.xfunc)
           tc == get_table_column(argv, cb.label)
           st == IF ~tc.ok \/ panics THEN [HelperState(CurrentDb, {}) EXCEPT !.ctx = tc.ctx]
                 ELSE IF e.xfunc = "create_spatial_index_xfunc"
                 THEN create_spatial_index_xfunc(CurrentDb, argv, {})
                 ELSE drop_spatial_index_xfunc(CurrentDb, argv, {})
           r == xfunc_guard(cb.label, Outcome(st.ctx, tc.ok, tc.ok /\ panics))
       IN  /\ call' = Call("returned", e.name, e.xfunc, argv, r)
           /\ connAlive' = r.alive
           /\ SetDb(st.db)
    /\ UNCHANGED <<geo, recTriggers, sinceCreate, last, regPc, regIdx, registered, regRc>>

\* SQLite takes the result and the connection goes on.
Return ==
    /\ call.pc = "returned"
    /\ connAlive
    /\ call' = CallIdle
    /\ UNCHANGED <<geo, rows, rtrees, triggers, spStack, recTriggers, sinceCreate, last,
                   connAlive, regPc, regIdx, registered, regRc>>

\* The connection takes the next call when the last one has returned.
CanCall == call.pc = "idle" /\ connAlive

NextCall ==
    \/ /\ CanCall
       /\ \E e \in Range(deterministic_callbacks), panics \in BOOLEAN :
             \E argv \in [1..e.n_arg -> CallValues] : Invoke(e, argv, panics)
    \/ /\ CanCall
       /\ \E e \in Range(direct_only_callbacks), panics \in BOOLEAN :
             \E argv \in [1..e.n_arg -> CallValues] : InvokeHelper(e, argv, panics)
    \/ Return

SpecCall == Init /\ [][NextCall]_vars

----------------------------------------------------------------------------
(* register_functions *)

DET == {"SQLITE_UTF8", "SQLITE_DETERMINISTIC", "SQLITE_INNOCUOUS"}
DIRECT == {"SQLITE_UTF8", "SQLITE_DIRECTONLY"}

\* What sqlite3_create_function_v2 may answer
CreateFunctionRcs == {"SQLITE_OK", "SQLITE_NOMEM"}

FindByNameOnly(callbacks, name, n_arg) ==
    IF \E i \in 1..Len(callbacks) : callbacks[i].name = name
    THEN CHOOSE i \in 1..Len(callbacks) :
             /\ callbacks[i].name = name
             /\ \A j \in 1..(i - 1) : callbacks[j].name # name
    ELSE 0

\* callbacks.iter().find(|(name, n_arg, _)| ..): the index of the first match, 0
\* for None.
find(callbacks, name, n_arg) ==
    IF \E i \in 1..Len(callbacks) : callbacks[i].name = name /\ callbacks[i].n_arg = n_arg
    THEN CHOOSE i \in 1..Len(callbacks) :
             /\ callbacks[i].name = name /\ callbacks[i].n_arg = n_arg
             /\ \A j \in 1..(i - 1) : ~(callbacks[j].name = name /\ callbacks[j].n_arg = n_arg)
    ELSE 0

\* reg: sqlite3_create_function_v2 answers rc; on SQLITE_OK the function stands
\* registered under (name, n_arg), in place of what stood there.
reg(fns, name, n_arg, flags, xfunc, rc) ==
    IF rc # "SQLITE_OK" THEN fns
    ELSE {f \in fns : ~(f.name = name /\ f.n_arg = n_arg)}
         \cup {[name |-> name, n_arg |-> n_arg, flags |-> flags, xfunc |-> xfunc]}

RegReturn(rc) ==
    /\ regPc' = "done"
    /\ regRc' = rc
    /\ UNCHANGED regIdx

\* register_functions up to the first loop
RegEnter ==
    /\ regPc = "idle"
    /\ IF Len(deterministic_callbacks) # Len(SQLITE_DETERMINISTIC_FUNCTIONS)
       THEN RegReturn("SQLITE_ERROR")
       ELSE regPc' = "deterministic" /\ regIdx' = 1 /\ UNCHANGED regRc
    /\ UNCHANGED <<geo, registered, rows, rtrees, triggers, spStack, recTriggers, sinceCreate,
                   last, call, connAlive>>

\* One turn of a loop over a catalog
RegTurn(pc, catalog, callbacks, flags, rc) ==
    /\ regPc = pc
    /\ regIdx <= Len(catalog)
    /\ LET spec == catalog[regIdx]
           at == find(callbacks, spec.name, spec.n_arg)
       IN  IF at = 0
           THEN RegReturn("SQLITE_ERROR") /\ UNCHANGED registered
           ELSE /\ registered' = reg(registered, spec.name, spec.n_arg, flags,
                                     callbacks[at].xfunc, rc)
                /\ IF rc # "SQLITE_OK" THEN RegReturn(rc)
                   ELSE regIdx' = regIdx + 1 /\ UNCHANGED <<regPc, regRc>>
    /\ UNCHANGED <<geo, rows, rtrees, triggers, spStack, recTriggers, sinceCreate,
                   last, call, connAlive>>

RegDeterministic(rc) ==
    /\ rc \in CreateFunctionRcs
    /\ RegTurn("deterministic", SQLITE_DETERMINISTIC_FUNCTIONS, deterministic_callbacks, DET, rc)

\* Between the loops
RegBetween ==
    /\ regPc = "deterministic"
    /\ regIdx > Len(SQLITE_DETERMINISTIC_FUNCTIONS)
    /\ IF Len(direct_only_callbacks) # Len(SQLITE_DIRECT_ONLY_FUNCTIONS)
       THEN RegReturn("SQLITE_ERROR")
       ELSE regPc' = "direct_only" /\ regIdx' = 1 /\ UNCHANGED regRc
    /\ UNCHANGED <<geo, registered, rows, rtrees, triggers, spStack, recTriggers, sinceCreate,
                   last, call, connAlive>>

RegDirectOnly(rc) ==
    /\ rc \in CreateFunctionRcs
    /\ RegTurn("direct_only", SQLITE_DIRECT_ONLY_FUNCTIONS, direct_only_callbacks, DIRECT, rc)

\* After the second loop
RegLeave ==
    /\ regPc = "direct_only"
    /\ regIdx > Len(SQLITE_DIRECT_ONLY_FUNCTIONS)
    /\ RegReturn("SQLITE_OK")
    /\ UNCHANGED <<geo, registered, rows, rtrees, triggers, spStack, recTriggers, sinceCreate,
                   last, call, connAlive>>

NextReg ==
    \/ RegEnter
    \/ \E rc \in CreateFunctionRcs : RegDeterministic(rc)
    \/ RegBetween
    \/ \E rc \in CreateFunctionRcs : RegDirectOnly(rc)
    \/ RegLeave

SpecReg == Init /\ [][NextReg]_vars

----------------------------------------------------------------------------
(* geolite-core: the EWKB codec (ewkb.rs).  A blob is a sequence of bytes;   *)
(* an f64 is the sequence of its eight bytes, least significant first; an    *)
(* Option is <<>> for None and <<v>> for Some(v).  A type word is kept as its *)
(* four bytes, least significant first: the flags sit in the fourth, where   *)
(* 0x20000000, 0x80000000 and 0x40000000 are the bits 32, 128 and 64.        *)

EWKB_SRID_FLAG == 32
EWKB_Z_FLAG == 128
EWKB_M_FLAG == 64

\* WKB_POINT .. WKB_GEOMETRYCOLLECTION
WkbTypeCode ==
    [Point |-> 1, LineString |-> 2, Polygon |-> 3, MultiPoint |-> 4,
     MultiLineString |-> 5, MultiPolygon |-> 6, GeometryCollection |-> 7]

\* Result<T>: Ok(v) and Err(GeoLiteError::kind(msg))
Ok(v) == [ok |-> TRUE, v |-> v]
Err(kind, msg) == [ok |-> FALSE, err |-> kind, msg |-> msg]

\* u32::to_le_bytes, u32::to_be_bytes and the same of i32 (two's complement)
to_bytes(n, little_endian) ==
    IF little_endian
    THEN <<n % 256, (n \div 256) % 256, (n \div 65536) % 256, (n \div 16777216) % 256>>
    ELSE <<(n \div 16777216) % 256, (n \div 65536) % 256, (n \div 256) % 256, n % 256>>

\* The four bytes of a word in the declared byte order, least significant first
word(bytes, little_endian) ==
    IF little_endian THEN bytes ELSE <<bytes[4], bytes[3], bytes[2], bytes[1]>>

\* i32::from_le_bytes, i32::from_be_bytes
read_i32(bytes, little_endian) ==
    LET of(b) == b[1] + 256 * b[2] + 65536 * b[3]
                    + 16777216 * (IF b[4] >= 128 THEN b[4] - 256 ELSE b[4])
    IN  of(word(bytes, little_endian))

\* u32::from_le_bytes, u32::from_be_bytes of a count; 2^31 and more, which is
\* more than any blob has bytes, is read as 2^31 - 1
read_u32(bytes, little_endian) ==
    LET of(n) == IF n < 0 THEN 2147483647 ELSE n
    IN  of(read_i32(bytes, little_endian))

\* read_f64: the eight bytes at an offset of the blob, as an f64
read_f64(blob, at, little_endian) ==
    IF little_endian THEN SubSeq(blob, at + 1, at + 8) ELSE [i \in 1..8 |-> blob[at + 9 - i]]

\* f64::NAN, 0x7ff8000000000000
NAN == <<0, 0, 0, 0, 0, 0, 248, 127>>

\* f64::is_nan: the exponent bits are all set and the mantissa is not zero
is_nan(v) ==
    /\ v[8] % 128 = 127
    /\ v[7] \div 16 = 15
    /\ (v[7] % 16 # 0 \/ \E i \in 1..6 : v[i] # 0)

\* geo::Geometry<f64>: cs holds the coordinates of a Point (one) or a LineString,
\* rings the exterior and the interior rings of a Polygon, gs the members of a
\* MultiPoint, MultiLineString, MultiPolygon or GeometryCollection.
Geometry(t, cs, rings, gs) == [t |-> t, cs |-> cs, rings |-> rings, gs |-> gs]

EnsureXyOnlyIgnoresM(has_z, has_m) ==
    IF has_z THEN Err("UnsupportedDimensions", IF has_m THEN "ZM" ELSE "Z") ELSE Ok(<<>>)

ensure_xy_only(has_z, has_m) ==
    IF has_z \/ has_m
    THEN Err("UnsupportedDimensions",
             IF has_z /\ has_m THEN "ZM" ELSE IF has_z THEN "Z" ELSE "M")
    ELSE Ok(<<>>)

parse_ewkb_header(blob) ==
    LET of(little_endian, raw_type, has_srid) ==
            IF has_srid /\ Len(blob) < 9
            THEN Err("InvalidEwkb", "SRID flag set but blob too short")
            ELSE Ok([geom_type |-> read_u32([raw_type EXCEPT ![4] = @ % EWKB_SRID_FLAG],
                                            TRUE),
                     srid |-> IF has_srid
                              THEN <<read_i32(SubSeq(blob, 6, 9), little_endian)>>
                              ELSE <<>>,
                     has_z |-> (raw_type[4] \div EWKB_Z_FLAG) % 2 = 1,
                     has_m |-> (raw_type[4] \div EWKB_M_FLAG) % 2 = 1,
                     data_offset |-> IF has_srid THEN 9 ELSE 5,
                     little_endian |-> little_endian])
    IN  IF Len(blob) < 5 THEN Err("InvalidEwkb", "blob too short")
        ELSE IF blob[1] \notin {0, 1} THEN Err("InvalidEwkb", "invalid byte order marker")
        ELSE of(blob[1] = 1, word(SubSeq(blob, 2, 5), blob[1] = 1),
                (word(SubSeq(blob, 2, 5), blob[1] = 1)[4] \div EWKB_SRID_FLAG) % 2 = 1)

point_is_empty_with_header(blob, header) ==
    IF header.geom_type # WkbTypeCode.Point THEN Ok(FALSE)
    ELSE IF Len(blob) < header.data_offset
                + 8 * (2 + (IF header.has_z THEN 1 ELSE 0) + (IF header.has_m THEN 1 ELSE 0))
         THEN Err("InvalidEwkb", "point payload truncated")
    ELSE Ok(/\ is_nan(read_f64(blob, header.data_offset, header.little_endian))
            /\ is_nan(read_f64(blob, header.data_offset + 8, header.little_endian)))

extract_srid(blob) ==
    LET of(header) == IF header.ok THEN header.v.srid ELSE <<>>
    IN  of(parse_ewkb_header(blob))

EnsureMatchingSridKeepLeft(left, right) ==
    IF (IF left = <<>> THEN 0 ELSE left[1]) # (IF right = <<>> THEN 0 ELSE right[1])
    THEN Err("InvalidInput", "operation on mixed SRID geometries")
    ELSE Ok(left)

ensure_matching_srid(left, right) ==
    LET of(l, r) ==
            IF l # r
            THEN Err("InvalidInput",
                     "operation on mixed SRID geometries (" \o ToString(l) \o " != "
                         \o ToString(r) \o ")")
            ELSE IF left = <<>> /\ right = <<>> THEN Ok(<<>>) ELSE Ok(<<l>>)
    IN  of(IF left = <<>> THEN 0 ELSE left[1], IF right = <<>> THEN 0 ELSE right[1])

\* The concatenation of a sequence of byte sequences.
RECURSIVE Flatten(_)
Flatten(seqs) == IF seqs = <<>> THEN <<>> ELSE Head(seqs) \o Flatten(Tail(seqs))

\* geozero's ToWkb with CoordDimensions::xy(): ISO WKB, little-endian; a Polygon
\* is written with its exterior ring first, the members of a collection each
\* with a header of their own.
RECURSIVE to_wkb(_)
to_wkb(g) ==
    LET line(cs) ==
            to_bytes(Len(cs), TRUE) \o Flatten([i \in 1..Len(cs) |-> cs[i][1] \o cs[i][2]])
    IN  <<1>> \o to_bytes(WkbTypeCode[g.t], TRUE) \o
        CASE g.t = "Point" -> g.cs[1][1] \o g.cs[1][2]
          [] g.t = "LineString" -> line(g.cs)
          [] g.t = "Polygon" ->
                to_bytes(Len(g.rings), TRUE)
                    \o Flatten([i \in 1..Len(g.rings) |-> line(g.rings[i])])
          [] OTHER ->
                to_bytes(Len(g.gs), TRUE) \o Flatten([i \in 1..Len(g.gs) |-> to_wkb(g.gs[i])])

\* geozero's reader of the Ewkb dialect, feeding geo: what it read, and the offset
\* it stopped at.  The type is the low byte of the type word, Z and M are the flag
\* bits; a coordinate is read with the dimensions of its header and its X and Y
\* kept; running out of bytes or meeting a type outside 1..7 is an error; bytes
\* after the geometry are not looked at.
RECURSIVE ReadRings(_, _, _, _, _)
ReadRings(blob, pos, little_endian, dims, n) ==
    LET of(count) ==
            IF count > Len(blob) \/ Len(blob) < pos + 4 + count * 8 * dims
            THEN [ok |-> FALSE, v |-> <<>>, pos |-> pos]
            ELSE [ReadRings(blob, pos + 4 + count * 8 * dims, little_endian, dims, n - 1)
                    EXCEPT !.v =
                        <<[i \in 1..count |->
                            <<read_f64(blob, pos + 4 + (i - 1) * 8 * dims, little_endian),
                              read_f64(blob, pos + 12 + (i - 1) * 8 * dims, little_endian)>>]>>
                            \o @]
    IN  IF n = 0 THEN [ok |-> TRUE, v |-> <<>>, pos |-> pos]
        ELSE IF Len(blob) < pos + 4 THEN [ok |-> FALSE, v |-> <<>>, pos |-> pos]
        ELSE of(read_u32(SubSeq(blob, pos + 1, pos + 4), little_endian))

RECURSIVE ReadGeometry(_, _)
RECURSIVE ReadMembers(_, _, _)
ReadMembers(blob, pos, n) ==
    LET of(first) ==
            IF ~first.ok THEN [ok |-> FALSE, v |-> <<>>, pos |-> pos]
            ELSE [ReadMembers(blob, first.pos, n - 1) EXCEPT !.v = <<first.v>> \o @]
    IN  IF n = 0 THEN [ok |-> TRUE, v |-> <<>>, pos |-> pos]
        ELSE of(ReadGeometry(blob, pos))

ReadGeometry(blob, pos) ==
    LET \* geo::Polygon::new closes a ring that is not closed
        closed(r) == IF r # <<>> /\ r[1] # r[Len(r)] THEN Append(r, r[1]) ELSE r
        polygon(rings) ==
            [rings EXCEPT !.v =
                Geometry("Polygon", <<>>,
                         IF @ = <<>> THEN <<<<>>>> ELSE [i \in 1..Len(@) |-> closed(@[i])],
                         <<>>)]
        body(little_endian, base_type, dims, at, count) ==
            IF Len(blob) < at + (IF base_type = 1 THEN 8 * dims ELSE 4)
               \/ base_type \notin 1..7
            THEN [ok |-> FALSE, v |-> <<>>, pos |-> pos]
            ELSE CASE base_type = 1 ->
                        [ok |-> TRUE, pos |-> at + 8 * dims,
                         v |-> Geometry("Point",
                                        <<<<read_f64(blob, at, little_endian),
                                            read_f64(blob, at + 8, little_endian)>>>>,
                                        <<>>, <<>>)]
                   [] base_type \in {2, 3} ->
                        IF base_type = 3
                        THEN polygon(ReadRings(blob, at + 4, little_endian, dims, count))
                        ELSE [ReadRings(blob, at, little_endian, dims, 1) EXCEPT !.v =
                                IF @ = <<>> THEN <<>>
                                ELSE Geometry("LineString", @[1], <<>>, <<>>)]
                   [] OTHER ->
                        [ReadMembers(blob, at + 4,
                                     IF count > Len(blob) THEN Len(blob) ELSE count)
                            EXCEPT !.v =
                                Geometry(CHOOSE name \in DOMAIN WkbTypeCode :
                                            WkbTypeCode[name] = base_type,
                                         <<>>, <<>>, @)]
        header(little_endian, type_id) ==
            body(little_endian, type_id[1],
                 2 + ((type_id[4] \div EWKB_Z_FLAG) % 2) + ((type_id[4] \div EWKB_M_FLAG) % 2),
                 pos + 5 + 4 * ((type_id[4] \div EWKB_SRID_FLAG) % 2),
                 IF Len(blob) < pos + 9 + 4 * ((type_id[4] \div EWKB_SRID_FLAG) % 2) THEN 0
                 ELSE read_u32(SubSeq(blob, pos + 6 + 4 * ((type_id[4] \div EWKB_SRID_FLAG) % 2),
                                      pos + 9 + 4 * ((type_id[4] \div EWKB_SRID_FLAG) % 2)),
                               little_endian))
    IN  IF Len(blob) < pos + 5 THEN [ok |-> FALSE, v |-> <<>>, pos |-> pos]
        ELSE header(blob[pos + 1] # 0, word(SubSeq(blob, pos + 2, pos + 5), blob[pos + 1] # 0))

to_geo(blob) ==
    LET of(read) == IF read.ok THEN Ok(read.v) ELSE Err("Geozero", "geometry format")
    IN  of(ReadGeometry(blob, 0))

\* Validate header and payload without forcing XY-only dimensions.
validate_ewkb_payload(blob) ==
    LET of(header) ==
            LET rest(empty) ==
                    IF ~empty.ok THEN empty
                    ELSE IF empty.v THEN header
                    ELSE LET decoded(geom) == IF ~geom.ok THEN geom ELSE header
                         IN  decoded(to_geo(blob))
            IN  IF ~header.ok THEN header
                ELSE rest(point_is_empty_with_header(blob, header.v))
    IN  of(parse_ewkb_header(blob))

validate_xy_ewkb_payload(blob) ==
    LET of(header) ==
            LET rest(xy) == IF ~xy.ok THEN xy ELSE header
            IN  IF ~header.ok THEN header
                ELSE rest(ensure_xy_only(header.v.has_z, header.v.has_m))
    IN  of(validate_ewkb_payload(blob))

\* Ok(<<geometry, srid>>)
parse_ewkb(blob) ==
    LET of(header) ==
            LET decoded(geom) == IF ~geom.ok THEN geom ELSE Ok(<<geom.v, header.v.srid>>)
                rest(xy, empty) ==
                    IF ~xy.ok THEN xy
                    ELSE IF ~empty.ok THEN empty
                    ELSE IF empty.v
                         THEN Ok(<<Geometry("Point", <<<<NAN, NAN>>>>, <<>>, <<>>),
                                   header.v.srid>>)
                    ELSE decoded(to_geo(blob))
            IN  IF ~header.ok THEN header
                ELSE rest(ensure_xy_only(header.v.has_z, header.v.has_m),
                          point_is_empty_with_header(blob, header.v))
    IN  of(parse_ewkb_header(blob))

\* Ok(<<left geometry, right geometry, shared srid>>)
parse_ewkb_pair(a, b) ==
    LET of(pa, pb) ==
            LET rest(srid) ==
                    IF ~srid.ok THEN srid ELSE Ok(<<pa.v[1], pb.v[1], srid.v>>)
            IN  IF ~pa.ok THEN pa
                ELSE IF ~pb.ok THEN pb
                ELSE rest(ensure_matching_srid(pa.v[2], pb.v[2]))
    IN  of(parse_ewkb(a), parse_ewkb(b))

patch_wkb_with_srid(iso_wkb, srid_val) ==
    LET of(little_endian, raw_type) ==
            Ok(<<iso_wkb[1]>>
                \o word(IF (raw_type[4] \div EWKB_SRID_FLAG) % 2 = 1 THEN raw_type
                        ELSE [raw_type EXCEPT ![4] = @ + EWKB_SRID_FLAG],
                        little_endian)
                \o to_bytes(srid_val, little_endian)
                \o SubSeq(iso_wkb, 6, Len(iso_wkb)))
    IN  IF Len(iso_wkb) < 5 THEN Err("InvalidEwkb", "WKB output too short")
        ELSE IF iso_wkb[1] \notin {0, 1} THEN Err("InvalidEwkb", "invalid byte order marker")
        ELSE of(iso_wkb[1] = 1, word(SubSeq(iso_wkb, 2, 5), iso_wkb[1] = 1))

WriteEwkbDropZero(geom, srid) ==
    IF geom.t = "Point" /\ is_nan(geom.cs[1][1]) /\ is_nan(geom.cs[1][2])
    THEN Ok(<<1>>
            \o <<WkbTypeCode.Point, 0, 0, IF srid \notin {<<>>, <<0>>} THEN EWKB_SRID_FLAG ELSE 0>>
            \o (IF srid \notin {<<>>, <<0>>} THEN to_bytes(srid[1], TRUE) ELSE <<>>)
            \o NAN \o NAN)
    ELSE LET of(iso_wkb) ==
                 IF srid \notin {<<>>, <<0>>} THEN patch_wkb_with_srid(iso_wkb, srid[1])
                 ELSE Ok(iso_wkb)
         IN  of(to_wkb(geom))

write_ewkb(geom, srid) ==
    IF geom.t = "Point" /\ is_nan(geom.cs[1][1]) /\ is_nan(geom.cs[1][2])
    THEN Ok(<<1>>
            \o <<WkbTypeCode.Point, 0, 0, IF srid # <<>> THEN EWKB_SRID_FLAG ELSE 0>>
            \o (IF srid # <<>> THEN to_bytes(srid[1], TRUE) ELSE <<>>)
            \o NAN \o NAN)
    ELSE LET of(iso_wkb) ==
                 IF srid # <<>> THEN patch_wkb_with_srid(iso_wkb, srid[1]) ELSE Ok(iso_wkb)
         IN  of(to_wkb(geom))

SetSridHeaderOnly(blob, new_srid) ==
    LET of(header) ==
            LET rest(little_endian, raw_type) ==
                    Ok(<<IF little_endian THEN 1 ELSE 0>>
                        \o word(IF (raw_type[4] \div EWKB_SRID_FLAG) % 2 = 1 THEN raw_type
                                ELSE [raw_type EXCEPT ![4] = @ + EWKB_SRID_FLAG],
                                little_endian)
                        \o to_bytes(new_srid, little_endian)
                        \o SubSeq(blob, header.v.data_offset + 1, Len(blob)))
            IN  IF ~header.ok THEN header
                ELSE rest(header.v.little_endian,
                          word(SubSeq(blob, 2, 5), header.v.little_endian))
    IN  of(parse_ewkb_header(blob))

SetSridLittleEndian(blob, new_srid) ==
    LET of(header) ==
            LET rest(little_endian, raw_type) ==
                    Ok(<<IF little_endian THEN 1 ELSE 0>>
                        \o word(IF (raw_type[4] \div EWKB_SRID_FLAG) % 2 = 1 THEN raw_type
                                ELSE [raw_type EXCEPT ![4] = @ + EWKB_SRID_FLAG],
                                little_endian)
                        \o to_bytes(new_srid, TRUE)
                        \o SubSeq(blob, header.v.data_offset + 1, Len(blob)))
            IN  IF ~header.ok THEN header
                ELSE rest(header.v.little_endian,
                          word(SubSeq(blob, 2, 5), header.v.little_endian))
    IN  of(validate_ewkb_payload(blob))

set_srid(blob, new_srid) ==
    LET of(header) ==
            LET rest(little_endian, raw_type) ==
                    Ok(<<IF little_endian THEN 1 ELSE 0>>
                        \o word(IF (raw_type[4] \div EWKB_SRID_FLAG) % 2 = 1 THEN raw_type
                                ELSE [raw_type EXCEPT ![4] = @ + EWKB_SRID_FLAG],
                                little_endian)
                        \o to_bytes(new_srid, little_endian)
                        \o SubSeq(blob, header.v.data_offset + 1, Len(blob)))
            IN  IF ~header.ok THEN header
                ELSE rest(header.v.little_endian,
                          word(SubSeq(blob, 2, 5), header.v.little_endian))
    IN  of(validate_ewkb_payload(blob))

----------------------------------------------------------------------------
(* geolite-core: the functions built on the codec *)

is_empty_point(p) == is_nan(p.cs[1][1]) /\ is_nan(p.cs[1][2])

\* emptiness.rs: the emptiness predicate
RECURSIVE is_empty_geometry(_)
is_empty_geometry(geom) ==
    CASE geom.t = "Point" -> is_empty_point(geom)
      [] geom.t = "LineString" -> geom.cs = <<>>
      [] geom.t = "Polygon" -> geom.rings[1] = <<>>
      [] geom.t = "MultiPoint" ->
            geom.gs = <<>> \/ \A i \in 1..Len(geom.gs) : is_empty_point(geom.gs[i])
      [] geom.t = "MultiLineString" ->
            geom.gs = <<>> \/ \A i \in 1..Len(geom.gs) : geom.gs[i].cs = <<>>
      [] geom.t = "MultiPolygon" ->
            geom.gs = <<>> \/ \A i \in 1..Len(geom.gs) : geom.gs[i].rings[1] = <<>>
      [] OTHER ->
            geom.gs = <<>> \/ \A i \in 1..Len(geom.gs) : is_empty_geometry(geom.gs[i])

st_is_empty(blob) ==
    LET of(parsed) ==
            IF ~parsed.ok THEN parsed
            ELSE CASE parsed.v[1].t = "Point" -> Ok(FALSE)
                   [] parsed.v[1].t = "LineString" -> Ok(parsed.v[1].cs = <<>>)
                   [] parsed.v[1].t = "Polygon" -> Ok(parsed.v[1].rings[1] = <<>>)
                   [] OTHER -> Ok(parsed.v[1].gs = <<>>)
    IN  of(parse_ewkb(blob))

StNumGeometriesOfMulti(blob) ==
    LET of(parsed) ==
            IF ~parsed.ok THEN parsed
            ELSE IF parsed.v[1].t \in {"MultiPoint", "MultiLineString", "MultiPolygon"}
                 THEN Ok(Len(parsed.v[1].gs))
            ELSE Ok(1)
    IN  of(parse_ewkb(blob))

st_num_geometries(blob) ==
    LET of(parsed) ==
            IF ~parsed.ok THEN parsed
            ELSE IF parsed.v[1].t \in {"MultiPoint", "MultiLineString", "MultiPolygon",
                                       "GeometryCollection"}
                 THEN Ok(Len(parsed.v[1].gs))
            ELSE Ok(1)
    IN  of(parse_ewkb(blob))

st_x(blob) ==
    LET of(parsed) ==
            IF ~parsed.ok THEN parsed
            ELSE IF parsed.v[1].t = "Point" THEN Ok(parsed.v[1].cs[1][1])
            ELSE Err("WrongType", "Point")
    IN  of(parse_ewkb(blob))

st_y(blob) ==
    LET of(parsed) ==
            IF ~parsed.ok THEN parsed
            ELSE IF parsed.v[1].t = "Point" THEN Ok(parsed.v[1].cs[1][2])
            ELSE Err("WrongType", "Point")
    IN  of(parse_ewkb(blob))

st_make_line(a, b) ==
    LET of(pa, pb) ==
            IF ~pa.ok THEN pa
            ELSE IF ~pb.ok THEN pb
            ELSE IF pa.v[1].t # "Point" \/ pb.v[1].t # "Point" THEN Err("WrongType", "Point")
            ELSE write_ewkb(Geometry("LineString", <<pa.v[1].cs[1], pb.v[1].cs[1]>>,
                                     <<>>, <<>>),
                            pa.v[2])
    IN  of(parse_ewkb(a), parse_ewkb(b))

st_collect(a, b) ==
    LET of(pa, pb) ==
            IF ~pa.ok THEN pa
            ELSE IF ~pb.ok THEN pb
            ELSE write_ewkb(Geometry("GeometryCollection", <<>>, <<>>, <<pa.v[1], pb.v[1]>>),
                            pa.v[2])
    IN  of(parse_ewkb(a), parse_ewkb(b))

\* The polygons that geo's BooleanOps computes are handed in as result.
binary_polygon_op(a, b, result) ==
    LET of(pair) ==
            IF ~pair.ok THEN pair
            ELSE IF \E g \in {pair.v[1], pair.v[2]} : g.t \notin {"Polygon", "MultiPolygon"}
                 THEN Err("WrongType", "Polygon or MultiPolygon")
            ELSE write_ewkb(Geometry("MultiPolygon", <<>>, <<>>, result), pair.v[3])
    IN  of(parse_ewkb_pair(a, b))

\* The point that geo's ClosestPoint computes is handed in as cp, <<>> standing
\* for Closest::Indeterminate.
st_closest_point(a, b, cp) ==
    LET of(pair) ==
            IF ~pair.ok THEN pair
            ELSE IF is_empty_geometry(pair.v[1])
                 THEN Err("InvalidInput", "ST_ClosestPoint does not accept empty geometries")
            ELSE IF pair.v[2].t # "Point" THEN Err("WrongType", "Point")
            ELSE IF is_nan(pair.v[2].cs[1][1]) \/ is_nan(pair.v[2].cs[1][2])
                 THEN Err("InvalidInput", "ST_ClosestPoint does not accept empty points")
            ELSE IF cp = <<>> THEN Err("WrongType", "non-empty geometry")
            ELSE write_ewkb(Geometry("Point", cp, <<>>, <<>>), pair.v[3])
    IN  of(parse_ewkb_pair(a, b))

\* io.rs: Z and M of a raw type word, by the flag bits of EWKB or else by the
\* offsets of ISO WKB
wkb_has_z_or_m(raw_type) ==
    LET of(has_ewkb_z, has_ewkb_m, dim_code) ==
            IF has_ewkb_z \/ has_ewkb_m THEN <<has_ewkb_z, has_ewkb_m>>
            ELSE <<dim_code \in {1, 3}, dim_code \in {2, 3}>>
    IN  of((raw_type[4] \div EWKB_Z_FLAG) % 2 = 1,
           (raw_type[4] \div EWKB_M_FLAG) % 2 = 1,
           (raw_type[1] + 256 * raw_type[2] + 65536 * raw_type[3]
                + 16777216 * (raw_type[4] % EWKB_M_FLAG)) \div 1000)

\* io.rs: geom_from_wkb, with read_raw_wkb_type and is_empty_point_blob
geom_from_wkb(wkb, srid) ==
    LET decoded(geom) == IF ~geom.ok THEN geom ELSE write_ewkb(geom.v, srid)
        payload(empty) ==
            IF ~empty.ok THEN empty
            ELSE IF empty.v
                 THEN write_ewkb(Geometry("Point", <<<<NAN, NAN>>>>, <<>>, <<>>), srid)
            ELSE decoded(to_geo(wkb))
        is_empty_point_blob(header) ==
            IF ~header.ok THEN header ELSE point_is_empty_with_header(wkb, header.v)
        of(dims) ==
            LET rest(xy) ==
                    IF ~xy.ok THEN xy
                    ELSE payload(is_empty_point_blob(parse_ewkb_header(wkb)))
            IN  rest(ensure_xy_only(dims[1], dims[2]))
    IN  IF Len(wkb) < 5 THEN Err("InvalidEwkb", "blob too short")
        ELSE IF wkb[1] \notin {0, 1} THEN Err("InvalidEwkb", "invalid byte order marker")
        ELSE of(wkb_has_z_or_m(word(SubSeq(wkb, 2, 5), wkb[1] = 1)))

\* set_f64: the f64 as the callback hands it to sqlite3_result_double, which
\* stores NULL when it is handed NaN
set_f64(v) == [kind |-> "double", text |-> "", sql |-> NoStmt, v |-> v]

\* st_x_xfunc and st_y_xfunc, the expansions of xfunc_blob_opt_f64 over st_x and
\* st_y.  The macro sends Ok(Some(v)) to set_f64, Ok(None) to set_null and Err(e)
\* to set_error; st_x and st_y answer Ok(v) with a number for every Point, so the
\* number goes to set_f64 and nothing goes to the arm of None.
xfunc_blob_opt_f64(label, func, argv) ==
    LET of(blob) ==
            LET rest(r) ==
                    IF r.ok THEN set_f64(r.v)
                    ELSE set_error(label, r.err \o ": " \o r.msg)
            IN  IF blob.tag = "None" THEN set_null
                ELSE rest(IF func = "st_x" THEN st_x(blob.b) ELSE st_y(blob.b))
    IN  of(get_blob(argv[1]))

\* set_blob: the bytes handed to sqlite3_result_blob
set_blob(v) == [kind |-> "blob", text |-> "", sql |-> NoStmt, v |-> v]

\* sqlite3_value_int of an INTEGER, whose bytes here are the eight bytes of its
\* 64-bit value, least significant first: the low 32 bits, as an i32
sqlite3_value_int(v) == read_i32(SubSeq(v.bytes, 1, 4), TRUE)

\* st_setsrid_xfunc; require_i32_arg hands on what get_i32_arg took with
\* sqlite3_value_int
st_setsrid_xfunc(argv) ==
    LET of(b, srid) ==
            LET rest(r) ==
                    IF r.ok THEN set_blob(r.v)
                    ELSE set_error("ST_SetSRID", r.err \o ": " \o r.msg)
            IN  IF b.tag = "None" THEN set_null
                ELSE IF ~srid.some THEN srid.ctx
                ELSE rest(set_srid(b.b, sqlite3_value_int(argv[2])))
    IN  of(get_blob(argv[1]), require_i32_arg(argv[2], "ST_SetSRID", "srid"))

----------------------------------------------------------------------------
(* geolite-core: measurement.rs.  The number or the point that geo computes    *)
(* from geometries that passed the checks is handed in.                        *)

require_non_empty_geometry(geom, fn_name) ==
    IF is_empty_geometry(geom)
    THEN Err("InvalidInput", fn_name \o " does not accept empty geometries")
    ELSE Ok(<<>>)

\* require_non_empty_point(require_point(g)?, fn_name)
require_non_empty_point(g, fn_name) ==
    IF g.t # "Point" THEN Err("WrongType", "Point")
    ELSE IF is_nan(g.cs[1][1]) \/ is_nan(g.cs[1][2])
         THEN Err("InvalidInput", fn_name \o " does not accept empty points")
    ELSE Ok(g)

EnsureGeographicSridOrZero(srid, fn_name) ==
    IF srid \in {<<4326>>, <<0>>} THEN Ok(<<>>)
    ELSE Err("InvalidInput", fn_name \o " requires SRID 4326")

ensure_geographic_srid(srid, fn_name) ==
    IF srid = <<4326>> THEN Ok(<<>>)
    ELSE IF srid # <<>>
         THEN Err("InvalidInput",
                  fn_name \o " requires SRID 4326 (got " \o ToString(srid[1]) \o ")")
    ELSE Err("InvalidInput",
             fn_name \o " requires SRID 4326 (got unknown/unspecified SRID)")

\* Ok(<<left point, right point, srid>>), with ensure_matching_geographic_srid
parse_two_geographic_points(a, b, fn_name) ==
    LET of(pa, pb) ==
            LET points(ra, rb, srid) ==
                    IF ~ra.ok THEN ra
                    ELSE IF ~rb.ok THEN rb
                    ELSE Ok(<<ra.v, rb.v, srid>>)
                geographic(srid, checked) ==
                    IF ~checked.ok THEN checked
                    ELSE points(require_non_empty_point(pa.v[1], fn_name),
                                require_non_empty_point(pb.v[1], fn_name), srid)
                matching(srid) ==
                    IF ~srid.ok THEN srid
                    ELSE geographic(srid.v, ensure_geographic_srid(srid.v, fn_name))
            IN  IF ~pa.ok THEN pa
                ELSE IF ~pb.ok THEN pb
                ELSE matching(ensure_matching_srid(pa.v[2], pb.v[2]))
    IN  of(parse_ewkb(a), parse_ewkb(b))

\* st_distance and st_hausdorff_distance, which differ in fn_name and in what
\* geo computes
planar_distance(a, b, fn_name, d) ==
    LET of(pair) ==
            LET rest(ra, rb) ==
                    IF ~ra.ok THEN ra ELSE IF ~rb.ok THEN rb ELSE Ok(d)
            IN  IF ~pair.ok THEN pair
                ELSE rest(require_non_empty_geometry(pair.v[1], fn_name),
                          require_non_empty_geometry(pair.v[2], fn_name))
    IN  of(parse_ewkb_pair(a, b))

st_distance(a, b, d) == planar_distance(a, b, "ST_Distance", d)
st_hausdorff_distance(a, b, d) == planar_distance(a, b, "ST_HausdorffDistance", d)

\* st_distance_sphere, st_distance_spheroid and st_azimuth, which differ in
\* fn_name and in what geo computes
geographic_points_op(a, b, fn_name, d) ==
    LET of(points) == IF ~points.ok THEN points ELSE Ok(d)
    IN  of(parse_two_geographic_points(a, b, fn_name))

st_distance_sphere(a, b, d) == geographic_points_op(a, b, "ST_DistanceSphere", d)
st_distance_spheroid(a, b, d) == geographic_points_op(a, b, "ST_DistanceSpheroid", d)
st_azimuth(origin, target, d) == geographic_points_op(origin, target, "ST_Azimuth", d)

st_length_sphere(blob, d) ==
    LET of(parsed) ==
            LET rest(checked) ==
                    IF ~checked.ok THEN checked
                    ELSE IF parsed.v[1].t \in {"LineString", "MultiLineString"} THEN Ok(d)
                    ELSE Err("WrongType", "LineString or MultiLineString")
            IN  IF ~parsed.ok THEN parsed
                ELSE rest(ensure_geographic_srid(parsed.v[2], "ST_LengthSphere"))
    IN  of(parse_ewkb(blob))

st_project(origin, dest) ==
    LET of(parsed) ==
            LET point(po) ==
                    IF ~po.ok THEN po
                    ELSE write_ewkb(Geometry("Point", dest, <<>>, <<>>), parsed.v[2])
                rest(checked) ==
                    IF ~checked.ok THEN checked
                    ELSE point(require_non_empty_point(parsed.v[1], "ST_Project"))
            IN  IF ~parsed.ok THEN parsed
                ELSE rest(ensure_geographic_srid(parsed.v[2], "ST_Project"))
    IN  of(parse_ewkb(origin))

----------------------------------------------------------------------------
(* geolite-core: accessors.rs, constructors.rs and predicates.rs.  The error    *)
(* OutOfBounds { index, len } carries <<index, len>>.                          *)

st_point_n(blob, n, srid) ==
    LET of(parsed) ==
            IF ~parsed.ok THEN parsed
            ELSE IF parsed.v[1].t # "LineString" THEN Err("WrongType", "LineString")
            ELSE IF n <= 0 \/ n > Len(parsed.v[1].cs)
                 THEN Err("OutOfBounds", <<n, Len(parsed.v[1].cs)>>)
            ELSE write_ewkb(Geometry("Point", <<parsed.v[1].cs[n]>>, <<>>, <<>>),
                            IF srid # <<>> THEN srid ELSE parsed.v[2])
    IN  of(parse_ewkb(blob))

st_geometry_n(blob, n) ==
    LET of(parsed) ==
            IF ~parsed.ok THEN parsed
            ELSE IF n <= 0 THEN Err("OutOfBounds", <<n, 0>>)
            ELSE IF parsed.v[1].t \in {"MultiPoint", "MultiLineString", "MultiPolygon",
                                       "GeometryCollection"}
                 THEN IF n > Len(parsed.v[1].gs)
                      THEN Err("OutOfBounds", <<n, Len(parsed.v[1].gs)>>)
                      ELSE write_ewkb(parsed.v[1].gs[n], parsed.v[2])
            ELSE IF n = 1 THEN write_ewkb(parsed.v[1], parsed.v[2])
            ELSE Err("OutOfBounds", <<n, 1>>)
    IN  of(parse_ewkb(blob))

st_srid(blob) ==
    LET unwrap_or(o, default) == IF o = <<>> THEN default ELSE o[1]
    IN  Ok(unwrap_or(extract_srid(blob), 0))

\* raw_type comes with its three flag bits cleared
geom_type_name(raw_type) ==
    CASE raw_type = 1 -> "ST_Point"
      [] raw_type = 2 -> "ST_LineString"
      [] raw_type = 3 -> "ST_Polygon"
      [] raw_type = 4 -> "ST_MultiPoint"
      [] raw_type = 5 -> "ST_MultiLineString"
      [] raw_type = 6 -> "ST_MultiPolygon"
      [] raw_type = 7 -> "ST_GeometryCollection"
      [] OTHER -> "ST_Unknown"

st_geometry_type(blob) ==
    LET of(header) == IF ~header.ok THEN header ELSE Ok(geom_type_name(header.v.geom_type))
    IN  of(parse_ewkb_header(blob))

\* constructors.rs
st_point(x, y, srid) == write_ewkb(Geometry("Point", <<<<x, y>>>>, <<>>, <<>>), srid)

\* One cell of a DE-9IM matrix against one character of a pattern: the match
\* arms of de9im_pattern_match
cell_matches(m, p) ==
    CASE p = "*" -> TRUE
      [] p = "T" -> m \in {"0", "1", "2"}
      [] p = "F" -> m = "F"
      [] p = "0" -> m = "0"
      [] p = "1" -> m = "1"
      [] p = "2" -> m = "2"
      [] OTHER   -> FALSE

de9im_pattern_match(matrix, pattern) ==
    IF Len(matrix) # 9 \/ Len(pattern) # 9 THEN FALSE
    ELSE \A i \in 1..9 : cell_matches(SubSeq(matrix, i, i), SubSeq(pattern, i, i))

\* ST_RelateMatch, as its callback sets the result
st_relate_match(matrix, pattern) == Ok(de9im_pattern_match(matrix, pattern))

\* geo's IntersectionMatrix::matches: an error for a pattern that is not nine
\* characters long; otherwise cell by cell, FALSE at the first cell that does not
\* match and an error at a character that is no pattern character
RECURSIVE matches_from(_, _, _)
matches_from(matrix, spec, i) ==
    IF i > 9 THEN Ok(TRUE)
    ELSE IF SubSeq(spec, i, i) \notin {"T", "F", "*", "0", "1", "2"}
         THEN Err("InvalidInput", "invalid DE-9IM specification")
    ELSE IF ~cell_matches(SubSeq(matrix, i, i), SubSeq(spec, i, i)) THEN Ok(FALSE)
    ELSE matches_from(matrix, spec, i + 1)

matches(matrix, spec) ==
    IF Len(spec) # 9 THEN Err("InvalidInput", "invalid DE-9IM specification")
    ELSE matches_from(matrix, spec, 1)

\* matrix is what ga.relate(&gb) computes
st_relate_match_geoms(a, b, pattern, matrix) ==
    LET of(pair) ==
            IF ~pair.ok THEN pair
            ELSE LET unwrap_or(r, default) == IF r.ok THEN r.v ELSE default
                 IN  Ok(unwrap_or(matches(matrix, pattern), FALSE))
    IN  of(parse_ewkb_pair(a, b))

----------------------------------------------------------------------------
(* SpecGeom: one call of a function of geolite-core at a time *)

\* 1.0 and 2.0
One == <<0, 0, 0, 0, 0, 0, 240, 63>>
Two == <<0, 0, 0, 0, 0, 0, 0, 64>>

EmptyPoint == Geometry("Point", <<<<NAN, NAN>>>>, <<>>, <<>>)
SomePoint == Geometry("Point", <<<<One, Two>>>>, <<>>, <<>>)
EmptyLine == Geometry("LineString", <<>>, <<>>, <<>>)
SomeLine == Geometry("LineString", <<<<One, Two>>, <<Two, One>>>>, <<>>, <<>>)
EmptyPolygon == Geometry("Polygon", <<>>, <<<<>>>>, <<>>)
SomePolygon ==
    Geometry("Polygon", <<>>, <<<<<<One, One>>, <<Two, One>>, <<Two, Two>>, <<One, One>>>>>>,
             <<>>)
EmptyCollection == Geometry("GeometryCollection", <<>>, <<>>, <<>>)

\* The XY geometries the functions are called on: every type, empty and not, and
\* collections whose members are all empty, some empty, or collections themselves.
Geometries ==
    {Geometry("Point", <<<<x, y>>>>, <<>>, <<>>) : x, y \in {One, Two, NAN}}
        \cup {EmptyLine, SomeLine, EmptyPolygon, SomePolygon}
        \cup {Geometry("MultiPoint", <<>>, <<>>, gs) :
                gs \in {<<>>, <<SomePoint>>, <<EmptyPoint>>, <<EmptyPoint, SomePoint>>}}
        \cup {Geometry("MultiLineString", <<>>, <<>>, gs) :
                gs \in {<<>>, <<SomeLine>>, <<EmptyLine>>}}
        \cup {Geometry("MultiPolygon", <<>>, <<>>, gs) :
                gs \in {<<>>, <<SomePolygon>>, <<EmptyPolygon>>}}
        \cup {Geometry("GeometryCollection", <<>>, <<>>, gs) :
                gs \in {<<>>, <<SomePoint>>, <<EmptyPoint>>, <<EmptyPoint, EmptyLine>>,
                        <<SomePoint, EmptyPolygon>>, <<EmptyCollection>>,
                        <<Geometry("GeometryCollection", <<>>, <<>>, <<EmptyPoint>>)>>}}

\* 32-bit SRIDs, and the SRIDs a blob may carry
I32s == {0, 4326, -1, 2147483647, -2147483647 - 1}
Srids == {<<>>} \cup {<<s>> : s \in I32s}

\* A Point written by hand: either byte order, Z and M by flag bit or by the ISO
\* offsets 1000, 2000 and 3000, with one coordinate more for each dimension.
PointBlob(little_endian, srid, has_z, has_m, iso) ==
    LET f64(v) == IF little_endian THEN v ELSE [i \in 1..8 |-> v[9 - i]]
        dim_code == IF has_z /\ has_m THEN 3 ELSE IF has_m THEN 2 ELSE IF has_z THEN 1 ELSE 0
        flags == (IF srid # <<>> THEN EWKB_SRID_FLAG ELSE 0)
                    + (IF has_z /\ ~iso THEN EWKB_Z_FLAG ELSE 0)
                    + (IF has_m /\ ~iso THEN EWKB_M_FLAG ELSE 0)
        raw_type == [to_bytes(WkbTypeCode.Point + (IF iso THEN 1000 * dim_code ELSE 0), TRUE)
                        EXCEPT ![4] = flags]
    IN  <<IF little_endian THEN 1 ELSE 0>> \o word(raw_type, little_endian)
            \o (IF srid # <<>> THEN to_bytes(srid[1], little_endian) ELSE <<>>)
            \o f64(One) \o f64(Two)
            \o (IF has_z THEN f64(One) ELSE <<>>) \o (IF has_m THEN f64(Two) ELSE <<>>)

\* Blobs that carry Z or M
ZmBlobs ==
    {PointBlob(le, srid, z, m, iso) :
        le \in BOOLEAN, srid \in {<<>>, <<4326>>}, z \in BOOLEAN, m \in BOOLEAN,
        iso \in BOOLEAN} \ {PointBlob(le, srid, FALSE, FALSE, FALSE) :
                               le \in BOOLEAN, srid \in {<<>>, <<4326>>}}

\* Well-formed XY blobs: what write_ewkb emits, and Points in big-endian order
XyBlobs ==
    {write_ewkb(g, srid).v : g \in Geometries, srid \in {<<>>, <<0>>, <<4326>>}}
        \cup {PointBlob(FALSE, srid, FALSE, FALSE, FALSE) : srid \in Srids}

\* Blobs that are not well-formed: cut short by one byte or down to the header,
\* too short for a header, with a byte order that is none, of a type that is none.
BadBlobs ==
    {SubSeq(b, 1, Len(b) - 1) : b \in XyBlobs \cup ZmBlobs}
        \cup {SubSeq(b, 1, 5) : b \in XyBlobs}
        \cup {<<>>, <<1>>, <<2, 1, 0, 0, 0>> \o One \o Two, <<1, 99, 0, 0, 0>> \o One \o Two}

Blobs == XyBlobs \cup ZmBlobs \cup BadBlobs

\* The operands of the operations on two geometries
Operands ==
    {write_ewkb(g, srid).v : g \in {SomePoint, SomePolygon},
                             srid \in {<<>>, <<0>>, <<4326>>, <<3857>>}}

PolygonOps == {"st_union", "st_intersection", "st_difference", "st_sym_difference"}
\* What geo's BooleanOps may compute: no polygon, one polygon, two polygons
PolygonResults ==
    {<<>>, <<SomePolygon>>,
     <<SomePolygon,
       Geometry("Polygon", <<>>,
                <<<<<<Two, Two>>, <<One, Two>>, <<One, One>>, <<Two, Two>>>>>>, <<>>)>>}

GeoCall(op, a, b, s, out) ==
    /\ geo' = [op |-> op, a |-> a, b |-> b, s |-> s, out |-> out]
    /\ UNCHANGED <<rows, rtrees, triggers, spStack, recTriggers, sinceCreate, last,
                   call, connAlive, regPc, regIdx, registered, regRc>>

EnsureMatchingSrid(left, right) ==
    /\ geo.op = "none"
    /\ left \in Srids
    /\ GeoCall("ensure_matching_srid", left, right, <<>>, ensure_matching_srid(left, right))

SetSrid(blob, new_srid) ==
    /\ geo.op = "none"
    /\ new_srid \in I32s
    /\ GeoCall("set_srid", blob, <<>>, new_srid, set_srid(blob, new_srid))

WriteEwkb(geom, srid) ==
    /\ geo.op = "none"
    /\ srid \in Srids
    /\ GeoCall("write_ewkb", geom, <<>>, srid, write_ewkb(geom, srid))

ParseEwkb(blob) ==
    /\ geo.op = "none"
    /\ blob \in Blobs
    /\ GeoCall("parse_ewkb", blob, <<>>, <<>>, parse_ewkb(blob))

ValidateXy(blob) ==
    /\ geo.op = "none"
    /\ blob \in Blobs
    /\ GeoCall("validate_xy_ewkb_payload", blob, <<>>, <<>>, validate_xy_ewkb_payload(blob))

StIsEmpty(blob) ==
    /\ geo.op = "none"
    /\ blob \in Blobs
    /\ GeoCall("st_is_empty", blob, <<>>, <<>>, st_is_empty(blob))

StNumGeometries(blob) ==
    /\ geo.op = "none"
    /\ blob \in Blobs
    /\ GeoCall("st_num_geometries", blob, <<>>, <<>>, st_num_geometries(blob))

\* SELECT ST_X(v) and SELECT ST_Y(v)
StX(v) ==
    /\ geo.op = "none"
    /\ v.cls \in {"NULL", "BLOB"}
    /\ GeoCall("ST_X", v, <<>>, <<>>, xfunc_blob_opt_f64("ST_X", "st_x", <<v>>))

StY(v) ==
    /\ geo.op = "none"
    /\ v.cls \in {"NULL", "BLOB"}
    /\ GeoCall("ST_Y", v, <<>>, <<>>, xfunc_blob_opt_f64("ST_Y", "st_y", <<v>>))

StMakeLine(a, b) ==
    /\ geo.op = "none"
    /\ a \in Operands
    /\ GeoCall("st_make_line", a, b, <<>>, st_make_line(a, b))

StCollect(a, b) ==
    /\ geo.op = "none"
    /\ a \in Operands
    /\ GeoCall("st_collect", a, b, <<>>, st_collect(a, b))

BinaryPolygonOp(op, a, b, result) ==
    /\ geo.op = "none"
    /\ op \in PolygonOps
    /\ GeoCall(op, a, b, result, binary_polygon_op(a, b, result))

StClosestPoint(a, b, cp) ==
    /\ geo.op = "none"
    /\ a \in Operands
    /\ GeoCall("st_closest_point", a, b, <<>>, st_closest_point(a, b, cp))

GeomFromWkb(wkb, srid) ==
    /\ geo.op = "none"
    /\ wkb \in Blobs
    /\ GeoCall("geom_from_wkb", wkb, <<>>, srid, geom_from_wkb(wkb, srid))

\* 0.0, and the geometries the measurements are called on: empty and not, with
\* each SRID
Zero == <<0, 0, 0, 0, 0, 0, 0, 0>>
MeasureOperands ==
    {write_ewkb(g, srid).v :
        g \in {SomePoint, EmptyPoint, SomeLine, EmptyLine,
               Geometry("MultiLineString", <<>>, <<>>, <<EmptyLine>>),
               Geometry("MultiPoint", <<>>, <<>>, <<EmptyPoint>>),
               EmptyCollection,
               Geometry("GeometryCollection", <<>>, <<>>, <<EmptyPoint, EmptyLine>>)},
        srid \in {<<>>, <<0>>, <<4326>>, <<3857>>}}

StDistance(a, b, d) ==
    /\ geo.op = "none"
    /\ a \in MeasureOperands
    /\ GeoCall("st_distance", a, b, <<>>, st_distance(a, b, d))

StHausdorffDistance(a, b, d) ==
    /\ geo.op = "none"
    /\ a \in MeasureOperands
    /\ GeoCall("st_hausdorff_distance", a, b, <<>>, st_hausdorff_distance(a, b, d))

StClosestPointOf(a, b, cp) ==
    /\ geo.op = "none"
    /\ a \in MeasureOperands
    /\ GeoCall("st_closest_point", a, b, <<>>, st_closest_point(a, b, cp))

StDistanceSphere(a, b, d) ==
    /\ geo.op = "none"
    /\ a \in MeasureOperands
    /\ GeoCall("st_distance_sphere", a, b, <<>>, st_distance_sphere(a, b, d))

StDistanceSpheroid(a, b, d) ==
    /\ geo.op = "none"
    /\ a \in MeasureOperands
    /\ GeoCall("st_distance_spheroid", a, b, <<>>, st_distance_spheroid(a, b, d))

StAzimuth(origin, target, d) ==
    /\ geo.op = "none"
    /\ origin \in MeasureOperands
    /\ GeoCall("st_azimuth", origin, target, <<>>, st_azimuth(origin, target, d))

StLengthSphere(blob, d) ==
    /\ geo.op = "none"
    /\ blob \in MeasureOperands
    /\ GeoCall("st_length_sphere", blob, <<>>, <<>>, st_length_sphere(blob, d))

StProject(origin, dest) ==
    /\ geo.op = "none"
    /\ origin \in MeasureOperands
    /\ GeoCall("st_project", origin, <<>>, <<>>, st_project(origin, dest))

\* The indexes PointN and GeometryN are called with
Indexes == {-2147483647 - 1, -1, 0, 1, 2, 3, 2147483647}
IndexOperands == {write_ewkb(g, <<4326>>).v : g \in Geometries}

StPointN(blob, n, srid) ==
    /\ geo.op = "none"
    /\ blob \in IndexOperands
    /\ GeoCall("st_point_n", blob, srid, n, st_point_n(blob, n, srid))

StGeometryN(blob, n) ==
    /\ geo.op = "none"
    /\ blob \in IndexOperands
    /\ GeoCall("st_geometry_n", blob, <<>>, n, st_geometry_n(blob, n))

\* DE-9IM matrices as ST_Relate gives them, and one a caller cut short
Matrices == {"0FFFFFFF2", "212FF1FF2", "FF2FF1212", "0FFFFFFF"}
\* Patterns: well-formed ones, and ones of a wrong length or with a character
\* that is no pattern character
Patterns == {"T*****FF*", "0FFF*FFF2", "FF*FF****", "2********", "*********",
             "", "T*****FF", "T*****FF**", "X********", "********x", "t*****FF*"}
RelateOperands == {write_ewkb(SomePolygon, <<>>).v, write_ewkb(SomePoint, <<>>).v,
                   write_ewkb(SomePoint, <<4326>>).v}

StRelateMatch(matrix, pattern) ==
    /\ geo.op = "none"
    /\ GeoCall("st_relate_match", matrix, pattern, <<>>, st_relate_match(matrix, pattern))

StRelateMatchGeoms(a, b, pattern, matrix) ==
    /\ geo.op = "none"
    /\ Len(matrix) = 9
    /\ GeoCall("st_relate_match_geoms", a, b, pattern,
               st_relate_match_geoms(a, b, pattern, matrix))

StSrid(blob) ==
    /\ geo.op = "none"
    /\ blob \in Blobs
    /\ GeoCall("st_srid", blob, <<>>, <<>>, st_srid(blob))

StGeometryType(blob) ==
    /\ geo.op = "none"
    /\ blob \in Blobs
    /\ GeoCall("st_geometry_type", blob, <<>>, <<>>, st_geometry_type(blob))

\* f64::INFINITY, 0x7ff0000000000000, and f64::NEG_INFINITY
INFINITY == <<0, 0, 0, 0, 0, 0, 240, 127>>
NEG_INFINITY == <<0, 0, 0, 0, 0, 0, 240, 255>>
\* The coordinates ST_Point is called with
Coordinates == {One, Two, NAN, INFINITY, NEG_INFINITY}

StPoint(x, y, srid) ==
    /\ geo.op = "none"
    /\ GeoCall("st_point", <<x, y>>, <<>>, srid, st_point(x, y, srid))

\* SQL INTEGERs by their eight bytes: 4326, -1, 2^31 - 1 and -2^31, which an
\* i32 holds, and 2^32 + 4326, 2^31, -2^31 - 1 and 2^32, which it does not
Int64s ==
    {<<230, 16, 0, 0, 0, 0, 0, 0>>, <<255, 255, 255, 255, 255, 255, 255, 255>>,
     <<255, 255, 255, 127, 0, 0, 0, 0>>, <<0, 0, 0, 128, 255, 255, 255, 255>>,
     <<230, 16, 0, 0, 1, 0, 0, 0>>, <<0, 0, 0, 128, 0, 0, 0, 0>>,
     <<255, 255, 255, 127, 255, 255, 255, 255>>, <<0, 0, 0, 0, 1, 0, 0, 0>>}
SridValues == {NullValue, FloatValue} \cup {SqlValue("INTEGER", n) : n \in Int64s}

\* SELECT ST_SetSRID(g, s)
StSetsridXfunc(g, s) ==
    /\ geo.op = "none"
    /\ g.cls \in {"NULL", "BLOB"}
    /\ GeoCall("ST_SetSRID", g, s, <<>>, st_setsrid_xfunc(<<g, s>>))

\* The call has returned; the next one may be made.
GeoReturn ==
    /\ geo.op # "none"
    /\ geo' = [op |-> "none", a |-> <<>>, b |-> <<>>, s |-> <<>>, out |-> <<>>]
    /\ UNCHANGED <<rows, rtrees, triggers, spStack, recTriggers, sinceCreate, last,
                   call, connAlive, regPc, regIdx, registered, regRc>>

NextGeom ==
    \/ \E left, right \in Srids : EnsureMatchingSrid(left, right)
    \/ \E blob \in Blobs, new_srid \in I32s : SetSrid(blob, new_srid)
    \/ \E geom \in Geometries, srid \in Srids : WriteEwkb(geom, srid)
    \/ \E blob \in Blobs : ParseEwkb(blob)
    \/ \E blob \in Blobs : ValidateXy(blob)
    \/ \E blob \in Blobs : StIsEmpty(blob)
    \/ \E blob \in Blobs : StNumGeometries(blob)
    \/ \E v \in {NullValue} \cup {BlobValue(b) : b \in Blobs} : StX(v)
    \/ \E v \in {NullValue} \cup {BlobValue(b) : b \in Blobs} : StY(v)
    \/ \E a, b \in Operands : StMakeLine(a, b)
    \/ \E a, b \in Operands : StCollect(a, b)
    \/ \E op \in PolygonOps, a, b \in Operands, result \in PolygonResults :
            BinaryPolygonOp(op, a, b, result)
    \/ \E a, b \in Operands, cp \in {<<>>, <<<<One, Two>>>>} : StClosestPoint(a, b, cp)
    \/ \E wkb \in Blobs, srid \in {<<>>, <<4326>>} : GeomFromWkb(wkb, srid)
    \/ \E a, b \in MeasureOperands : StDistance(a, b, One)
    \/ \E a, b \in MeasureOperands : StHausdorffDistance(a, b, One)
    \/ \E a, b \in MeasureOperands : StClosestPointOf(a, b, <<<<One, Two>>>>)
    \/ \E a, b \in MeasureOperands : StDistanceSphere(a, b, One)
    \/ \E a, b \in MeasureOperands : StDistanceSpheroid(a, b, One)
    \/ \E a, b \in MeasureOperands : StAzimuth(a, b, One)
    \/ \E blob \in MeasureOperands, d \in {Zero, One} : StLengthSphere(blob, d)
    \/ \E origin \in MeasureOperands : StProject(origin, <<<<Two, One>>>>)
    \/ \E blob \in IndexOperands, n \in Indexes, srid \in {<<>>, <<3857>>} :
            StPointN(blob, n, srid)
    \/ \E blob \in IndexOperands, n \in Indexes : StGeometryN(blob, n)
    \/ \E matrix \in Matrices, pattern \in Patterns : StRelateMatch(matrix, pattern)
    \/ \E a \in RelateOperands, b \in RelateOperands, pattern \in Patterns, matrix \in Matrices :
            StRelateMatchGeoms(a, b, pattern, matrix)
    \/ \E blob \in Blobs : StSrid(blob)
    \/ \E blob \in Blobs : StGeometryType(blob)
    \/ \E x \in Coordinates, y \in Coordinates, srid \in {<<>>, <<4326>>} :
            StPoint(x, y, srid)
    \/ \E g \in {NullValue} \cup {BlobValue(b) : b \in Operands \cup {<<>>, <<1>>}},
          s \in SridValues :
            StSetsridXfunc(g, s)
    \/ GeoReturn

SpecGeom == Init /\ [][NextGeom]_vars

----------------------------------------------------------------------------
(* SpecNames: the names CreateSpatialIndex and DropSpatialIndex derive for two  *)
(* (table, column) pairs of valid identifiers                                  *)

\* The identifiers over the bytes of the model that validate_identifier accepts
ValidIdents == {b \in ByteStrings(MaxIdentLen) : validate_identifier(b)}

\* The R-tree and the three triggers of the index on (table, column)
IndexNames(table, column) ==
    [rtree |-> RtreeName(table, column),
     insert |-> TriggerName(table, column, SfxInsert),
     update |-> TriggerName(table, column, SfxUpdate),
     delete |-> TriggerName(table, column, SfxDelete)]

DeriveNames(table, column, table2, column2) ==
    /\ geo.op = "none"
    /\ GeoCall("index_names", <<table, column>>, <<table2, column2>>, <<>>,
               <<IndexNames(table, column), IndexNames(table2, column2)>>)

NextNames ==
    \/ \E table \in ValidIdents, column \in ValidIdents,
          table2 \in ValidIdents, column2 \in ValidIdents :
            DeriveNames(table, column, table2, column2)
    \/ GeoReturn

SpecNames == Init /\ [][NextNames]_vars

----------------------------------------------------------------------------
(* Properties of the spatial-index helpers *)

IndexRtree == RtreeName(BaseTable, GeomColumn)
IndexTriggerNames ==
    {TriggerName(BaseTable, GeomColumn, sfx) : sfx \in {SfxInsert, SfxUpdate, SfxDelete}}
Helpers == {"CreateSpatialIndex", "DropSpatialIndex"}

\* The R-tree a table's rows call for: one entry per row whose column holds a
\* non-NULL, non-empty geometry, under the rowid, with that geometry's box.
MirrorOf(table) ==
    [id \in RowIds |-> IF Indexable(rows[table][id]) THEN BBoxOf(rows[table][id]) ELSE NoEntry]

\* C1: once CreateSpatialIndex(t, c) has succeeded, and after any sequence of
\* INSERT, UPDATE of column c and DELETE statements on t, the R-tree t_c_rtree
\* holds exactly one entry per row whose c is non-NULL and non-empty, keyed by the
\* rowid with the current bounding box, and no other entry.
C1_RtreeMirrorsTable ==
    sinceCreate => /\ IndexRtree \in DOMAIN rtrees
                   /\ rtrees[IndexRtree] = MirrorOf(BaseTable)

\* C1, the state that refutes it: INSERT OR REPLACE put a NULL over an indexed row
\* and the row's entry is still in the R-tree.
C1_StaleEntryAfterReplace ==
    /\ sinceCreate
    /\ ~recTriggers
    /\ last.op = "INSERT"
    /\ rows[BaseTable][1] = "NULL"
    /\ rtrees[IndexRtree][1] = BBoxOf("gA")

\* C2: when a statement executed inside CreateSpatialIndex or DropSpatialIndex
\* fails, the schema and the R-tree contents are on return what they were before
\* the call.
C2_FailureRestoresSchema ==
    [][(last'.op \in Helpers /\ last'.ff # NoStmt)
          => (rtrees' = rtrees /\ triggers' = triggers)]_vars

\* C2, the state that refutes it: the closing RELEASE of CreateSpatialIndex failed
\* and the call returned its error with the index built and the savepoint open.
C2_ReleaseFailedIndexStays ==
    /\ last.op = "CreateSpatialIndex"
    /\ last.ctx.kind = "error"
    /\ last.ff.kind = "RELEASE"
    /\ IndexRtree \in DOMAIN rtrees
    /\ Cardinality(triggers) = 3
    /\ spStack = <<CreateSavepoint>>

\* C3: the error a helper reports is that of the first statement that failed; a
\* failure of the ROLLBACK TO or RELEASE that follows never replaces it.
C3_FirstErrorReported ==
    (last.op \in Helpers /\ last.ff # NoStmt) => last.ctx = set_error_sqlite(last.ff)

\* C3 witness: the population failed, then both statements of the rollback failed.
C3_RollbackFailedToo ==
    /\ last.op = "CreateSpatialIndex"
    /\ last.ff.kind = "INSERT_SELECT"
    /\ last.sf = {"ROLLBACK_TO", "RELEASE"}
    /\ last.ctx = set_error_sqlite(last.ff)

\* C4: CreateSpatialIndex and DropSpatialIndex are idempotent: the second of two
\* calls in succession returns 1 as the first did and leaves the state the first
\* left; after CreateSpatialIndex that state has exactly the three triggers and one
\* R-tree entry per indexable row, after DropSpatialIndex no R-tree and no trigger.
C4_Idempotent ==
    [][last'.again
          => /\ last'.ctx = set_i32(1)
             /\ <<rows', rtrees', triggers', spStack'>> = <<rows, rtrees, triggers, spStack>>
             /\ last'.op = "CreateSpatialIndex"
                   => /\ {t.name : t \in triggers'} = IndexTriggerNames
                      /\ Cardinality(triggers') = 3
                      /\ IndexRtree \in DOMAIN rtrees'
                      /\ rtrees'[IndexRtree] = MirrorOf(BaseTable)'
             /\ last'.op = "DropSpatialIndex"
                   => /\ triggers' = {}
                      /\ IndexRtree \notin DOMAIN rtrees']_vars

\* C4 witness: a second CreateSpatialIndex in succession over an indexed row.
C4_CreatedTwice ==
    /\ last.again
    /\ last.op = "CreateSpatialIndex"
    /\ \E id \in RowIds : Indexable(rows[BaseTable][id])
    /\ \E id \in RowIds : rtrees[IndexRtree][id] # NoEntry

\* C6: a helper called inside a transaction or savepoint of the user returns, on
\* every path, with its own savepoint off the stack, the user's savepoints still
\* open and the user's earlier changes intact.
C6_SavepointBalanced ==
    [][(last'.op \in Helpers /\ LastIndexOf(spStack, "user_tx") # 0)
          => (spStack' = spStack /\ rows' = rows)]_vars

\* C6, the state that refutes it: DropSpatialIndex returned inside the user's
\* savepoint with its own savepoint still above it.
C6_HelperSavepointLeft ==
    /\ last.op = "DropSpatialIndex"
    /\ last.ctx.kind = "error"
    /\ spStack = <<"user_tx", DropSavepoint>>

\* The bytes of [A-Za-z0-9_]
IdentifierBytes == (48..57) \cup (65..90) \cup (97..122) \cup {95}

\* A name that is empty or holds a character outside [A-Za-z0-9_]
BadName(v) ==
    /\ v.cls = "TEXT"
    /\ \/ Len(v.bytes) = 0
       \/ \E i \in 1..Len(v.bytes) : v.bytes[i] \notin IdentifierBytes

\* C5: CreateSpatialIndex and DropSpatialIndex fail for every table or column name
\* that is empty or holds a character outside [A-Za-z0-9_]; they then execute no
\* SQL at all and leave the database as it was.
C5_BadNameRejected ==
    [][(last'.op \in Helpers /\ (BadName(last'.a1) \/ BadName(last'.a2)))
          => /\ last'.ctx.kind = "error"
             /\ last'.nexec = 0
             /\ <<rows', rtrees', triggers', spStack'>> = <<rows, rtrees, triggers, spStack>>]_vars

\* C5 witness: an empty column name refused over an existing index.
C5_EmptyColumnRefused ==
    /\ last.op = "DropSpatialIndex"
    /\ last.a1 = TextValue(BaseTable)
    /\ last.a2 = TextValue(<<>>)
    /\ last.ctx.kind = "error"
    /\ last.nexec = 0
    /\ IndexRtree \in DOMAIN rtrees

----------------------------------------------------------------------------
(* Properties of the callbacks and of their registration *)

\* C7: for every registered function and every argument position, a NULL in that
\* position makes the call return NULL, with no error and without the algebra,
\* whatever the other arguments are.
C7_NullInNullOut ==
    (call.pc = "returned" /\ any_arg_is_null(call.argv))
        => (call.ctx = set_null /\ ~call.reached)

\* C7, the state that refutes it: ST_TileEnvelope('P', NULL, 1) is an error.
C7_TileEnvelopeErrorBeforeNull ==
    /\ call.pc = "returned"
    /\ call.name = "ST_TileEnvelope"
    /\ call.argv = <<TextValue(TextSample), NullValue, IntegerValue>>
    /\ call.ctx = set_error("ST_TileEnvelope", "zoom must be integer")

\* The storage class an argument kind declares
ClassMatches(k, cls) ==
    CASE k = "blob" -> cls = "BLOB"
      [] k = "text" -> cls = "TEXT"
      [] k = "f64" -> cls \in {"INTEGER", "FLOAT"}
      [] k = "i32" -> cls = "INTEGER"

\* C8: a call with no NULL among its arguments and one argument whose storage
\* class is not the one its type declares fails with an error.
C8_MismatchIsError ==
    (/\ call.pc = "returned"
     /\ ~any_arg_is_null(call.argv)
     /\ ~call.panicked
     /\ \E i \in 1..Len(call.argv) :
            ~ClassMatches(CallbackOf(call.xfunc).args[i].k, call.argv[i].cls))
        => call.ctx.kind = "error"

\* C8, the state that refutes it: ST_AsText on a TEXT value that holds the bytes of
\* an EWKB returns a value.
C8_TextTakenAsGeometry ==
    /\ call.pc = "returned"
    /\ call.name = "ST_AsText"
    /\ call.argv = <<TextValue(EwkbSample)>>
    /\ call.ctx.kind = "value"

\* C9: when the body of a callback panics, the call ends in the SQL error
\* "<label>: panic in SQLite callback" and the connection takes further calls.
C9_PanicBecomesError ==
    (call.pc = "returned" /\ call.panicked)
        => /\ call.ctx = Ctx("error", CallbackOf(call.xfunc).label \o ": panic in SQLite callback",
                             NoStmt)
           /\ connAlive
           /\ ENABLED Return

\* C9 witness: the algebra under ST_Buffer panicked on well-typed arguments.
C9_BufferPanicked ==
    /\ call.pc = "returned"
    /\ call.panicked
    /\ call.name = "ST_Buffer"
    /\ call.argv = <<BlobValue(EwkbSample), FloatValue>>

AllCallbacks == Range(deterministic_callbacks) \cup Range(direct_only_callbacks)

\* A catalog entry stands registered with these flags and with the callback the
\* tables declare for its name and arity.
RegisteredAs(spec, flags) ==
    \E f \in registered :
        /\ f.name = spec.name /\ f.n_arg = spec.n_arg
        /\ f.flags = flags
        /\ Reg(spec.name, spec.n_arg, f.xfunc) \in AllCallbacks
        /\ Len(CallbackOf(f.xfunc).args) = spec.n_arg

\* C10: register_functions returns SQLITE_OK only if every entry of the catalog is
\* registered with the callback declared for its name and arity, the deterministic
\* entries with the deterministic and innocuous flags, the direct-only entries with
\* the direct-only flag and without the deterministic one, and there are as many
\* callbacks as catalog entries.
C10_OkMeansAllRegistered ==
    (regPc = "done" /\ regRc = "SQLITE_OK")
        => /\ \A spec \in Range(SQLITE_DETERMINISTIC_FUNCTIONS) :
                  /\ RegisteredAs(spec, DET)
                  /\ {"SQLITE_DETERMINISTIC", "SQLITE_INNOCUOUS"} \subseteq DET
           /\ \A spec \in Range(SQLITE_DIRECT_ONLY_FUNCTIONS) :
                  /\ RegisteredAs(spec, DIRECT)
                  /\ "SQLITE_DIRECTONLY" \in DIRECT
                  /\ "SQLITE_DETERMINISTIC" \notin DIRECT
           /\ Len(deterministic_callbacks) = Len(SQLITE_DETERMINISTIC_FUNCTIONS)
           /\ Len(direct_only_callbacks) = Len(SQLITE_DIRECT_ONLY_FUNCTIONS)
           /\ Cardinality(registered)
                 = Len(SQLITE_DETERMINISTIC_FUNCTIONS) + Len(SQLITE_DIRECT_ONLY_FUNCTIONS)

\* C10 witness: register_functions has returned SQLITE_OK with all registered.
C10_AllRegistered ==
    /\ regPc = "done"
    /\ regRc = "SQLITE_OK"
    /\ Cardinality(registered) = Cardinality(AllCallbacks)

\* C11: every error string a spatial-index helper sets has the form
\* "<FunctionName>: <message>", FunctionName being the function that was called: it
\* is a message the helper formatted with its own name in front, never the message
\* of a statement handed over as SQLite gave it.
C11_ErrorNamesFunction ==
    (last.op \in Helpers /\ last.ctx.kind = "error")
        => /\ last.ctx.sql = NoStmt
           /\ Len(last.ctx.text) >= Len(last.op \o ": ")
           /\ SubSeq(last.ctx.text, 1, Len(last.op \o ": ")) = last.op \o ": "

\* C11, the state that refutes it: the population statement of CreateSpatialIndex
\* failed and the result slot holds that statement's own message, with no name in
\* front of it.
C11_SqliteMessageUnlabelled ==
    /\ last.op = "CreateSpatialIndex"
    /\ last.ff.kind = "INSERT_SELECT"
    /\ last.ctx = set_error_sqlite(last.ff)
    /\ last.ctx.sql # NoStmt

----------------------------------------------------------------------------
(* Properties of the codec and of the functions of geolite-core *)

BinaryOps == {"st_make_line", "st_collect", "st_closest_point"} \cup PolygonOps

\* The SRID of a blob with an absent SRID read as 0
SridOrZero(blob) == IF extract_srid(blob) = <<>> THEN 0 ELSE extract_srid(blob)[1]

\* C12: MakeLine, Collect, Union, Intersection, Difference, SymDifference and
\* ClosestPoint fail when the SRIDs of their operands differ, an absent SRID
\* counting as 0, and otherwise return a geometry with the matched SRID.
C12_MixedSridFails ==
    geo.op \in BinaryOps
        => /\ SridOrZero(geo.a) # SridOrZero(geo.b) => ~geo.out.ok
           /\ geo.out.ok =>
                extract_srid(geo.out.v)
                    = ensure_matching_srid(extract_srid(geo.a), extract_srid(geo.b)).v

\* ST_MakeLine of two Points whose SRIDs differ has returned a LineString.
C12_MakeLineMixedSucceeds ==
    /\ geo.op = "st_make_line"
    /\ SridOrZero(geo.a) # SridOrZero(geo.b)
    /\ geo.out.ok
    /\ extract_srid(geo.out.v) = extract_srid(geo.a)

\* An absent SRID read as 0
UnwrapOrZero(srid) == IF srid = <<>> THEN 0 ELSE srid[1]

\* C13: ensure_matching_srid(a, b) succeeds exactly when a and b are equal once an
\* absent SRID is read as 0; it then returns absent when both are absent and the
\* common value otherwise; in every other case it fails with InvalidInput and a
\* message naming both values; success and value are the same for (b, a).
C13_MatchingSrid ==
    geo.op = "ensure_matching_srid"
        => /\ geo.out.ok <=> UnwrapOrZero(geo.a) = UnwrapOrZero(geo.b)
           /\ geo.out.ok =>
                geo.out.v = IF geo.a = <<>> /\ geo.b = <<>> THEN <<>>
                            ELSE <<UnwrapOrZero(geo.a)>>
           /\ ~geo.out.ok =>
                /\ geo.out.err = "InvalidInput"
                /\ geo.out.msg = "operation on mixed SRID geometries ("
                                    \o ToString(UnwrapOrZero(geo.a)) \o " != "
                                    \o ToString(UnwrapOrZero(geo.b)) \o ")"
           /\ ensure_matching_srid(geo.b, geo.a).ok = geo.out.ok
           /\ geo.out.ok => ensure_matching_srid(geo.b, geo.a).v = geo.out.v

\* ensure_matching_srid(None, Some(0)) has returned Some(0).
C13_AbsentMatchesZero ==
    /\ geo.op = "ensure_matching_srid"
    /\ geo.a = <<>>
    /\ geo.b = <<0>>
    /\ geo.out = Ok(<<0>>)

\* Well-formed blobs: the XY ones, and the Points of EWKB that carry Z or M by
\* flag bit
WellFormedBlobs ==
    XyBlobs \cup {b \in ZmBlobs : b[IF b[1] = 1 THEN 5 ELSE 2] >= EWKB_M_FLAG}

\* C14: for every well-formed blob b and every 32-bit SRID s, 0 and the negative
\* ones included, extract_srid(set_srid(b, s)) = s, whether or not b carried an
\* SRID before and whichever byte order b uses.
C14_SetSridRoundTrip ==
    (geo.op = "set_srid" /\ geo.a \in WellFormedBlobs)
        => /\ geo.out.ok
           /\ extract_srid(geo.out.v) = <<geo.s>>

\* set_srid has written a negative SRID into a big-endian blob that had none.
C14_NegativeIntoBigEndian ==
    /\ geo.op = "set_srid"
    /\ geo.a \in XyBlobs
    /\ geo.a[1] = 0
    /\ extract_srid(geo.a) = <<>>
    /\ geo.s < 0
    /\ geo.out.ok
    /\ geo.out.v[1] = 0

\* C15: set_srid returns an error and no blob for every input whose payload fails
\* the full validation, truncated or malformed: a blob that validate_ewkb_payload
\* rejects is never turned into an output blob by rewriting its header.
C15_SetSridValidatesFirst ==
    (geo.op = "set_srid" /\ (geo.a \in BadBlobs \/ ~validate_ewkb_payload(geo.a).ok))
        => /\ ~geo.out.ok
           /\ "v" \notin DOMAIN geo.out

\* set_srid has refused a Point whose header is sound and whose payload is cut.
C15_TruncatedPointRefused ==
    /\ geo.op = "set_srid"
    /\ geo.a \in BadBlobs
    /\ parse_ewkb_header(geo.a).ok
    /\ parse_ewkb_header(geo.a).v.geom_type = WkbTypeCode.Point
    /\ geo.out = Err("InvalidEwkb", "point payload truncated")

\* C16: for every XY geometry g, POINT EMPTY included, and every SRID s, absent, 0
\* or any other 32-bit value, parse_ewkb(write_ewkb(g, s)) returns the same g and
\* the same s: an absent SRID stays absent and 0 stays 0.
C16_ParseEmitRoundTrip ==
    geo.op = "write_ewkb"
        => /\ geo.out.ok
           /\ parse_ewkb(geo.out.v) = Ok(<<geo.a, geo.s>>)
           /\ extract_srid(geo.out.v) = geo.s

\* POINT EMPTY has been written with SRID 0 and reads back as POINT EMPTY, SRID 0.
C16_EmptyPointZeroSrid ==
    /\ geo.op = "write_ewkb"
    /\ geo.a = EmptyPoint
    /\ geo.s = <<0>>
    /\ geo.out.ok
    /\ parse_ewkb(geo.out.v) = Ok(<<EmptyPoint, <<0>>>>)

\* The calls that check for XY-only coordinates, and the blob each was made on
XyChecks ==
    {"parse_ewkb", "validate_xy_ewkb_payload", "geom_from_wkb", "st_is_empty",
     "st_num_geometries"}
XyCallbacks == {"ST_X", "ST_Y"}

CollectionTypes == {"MultiPoint", "MultiLineString", "MultiPolygon", "GeometryCollection"}

\* The geometry a well-formed XY blob holds
GeometryOf(blob) == parse_ewkb(blob).v[1]

\* C18: ST_IsEmpty returns true exactly for the geometries that are empty under
\* the emptiness predicate: POINT EMPTY, a LineString, Polygon or collection
\* with nothing in it, and a collection all of whose members are empty,
\* recursively; it returns false for every other geometry.
C18_IsEmptyIsThePredicate ==
    (geo.op = "st_is_empty" /\ geo.a \in XyBlobs)
        => geo.out = Ok(is_empty_geometry(GeometryOf(geo.a)))

\* ST_IsEmpty has answered false for POINT EMPTY.
C18_EmptyPointNotEmpty ==
    /\ geo.op = "st_is_empty"
    /\ geo.a = write_ewkb(EmptyPoint, <<>>).v
    /\ geo.out = Ok(FALSE)

C20_EmptyPointGivesNull ==
    (geo.op \in XyCallbacks /\ geo.a.cls = "BLOB" /\ geo.a.bytes \in XyBlobs
        /\ GeometryOf(geo.a.bytes).t = "Point")
        => geo.out = IF is_empty_point(GeometryOf(geo.a.bytes)) THEN set_null
                     ELSE set_f64(GeometryOf(geo.a.bytes).cs[1][IF geo.op = "ST_X" THEN 1
                                                                 ELSE 2])

\* ST_X of POINT EMPTY has handed NaN to sqlite3_result_double.
C20_NanHandedOver ==
    /\ geo.op = "ST_X"
    /\ geo.a = BlobValue(write_ewkb(EmptyPoint, <<>>).v)
    /\ geo.out = set_f64(NAN)

MeasureOps ==
    {"st_distance", "st_hausdorff_distance", "st_closest_point", "st_distance_sphere",
     "st_distance_spheroid", "st_length_sphere", "st_azimuth", "st_project"}
GeographicOps ==
    {"st_distance_sphere", "st_distance_spheroid", "st_length_sphere", "st_azimuth",
     "st_project"}

\* The geometry inputs of the measurement that was called
MeasureInputs == IF geo.b = <<>> THEN {geo.a} ELSE {geo.a, geo.b}

\* C21: Distance, HausdorffDistance, ClosestPoint, DistanceSphere,
\* DistanceSpheroid, LengthSphere, Azimuth and Project return an error, never a
\* number or a geometry, whenever a geometry input is empty under the emptiness
\* predicate.
C21_EmptyInputIsError ==
    (geo.op \in MeasureOps /\ MeasureInputs \subseteq MeasureOperands
        /\ \E blob \in MeasureInputs : is_empty_geometry(GeometryOf(blob)))
        => ~geo.out.ok

\* ST_LengthSphere of LINESTRING EMPTY with SRID 4326 has returned the number 0.
C21_LengthSphereOfEmptyLine ==
    /\ geo.op = "st_length_sphere"
    /\ geo.a = write_ewkb(EmptyLine, <<4326>>).v
    /\ geo.out = Ok(Zero)

LengthFor(op, g) ==
    IF op = "st_point_n" THEN Len(g.cs)
    ELSE IF g.t \in CollectionTypes THEN Len(g.gs)
    ELSE 1

\* What PointN and GeometryN return for the index n within the length
ElementFor(op, g, n) ==
    IF op = "st_point_n" THEN Geometry("Point", <<g.cs[n]>>, <<>>, <<>>)
    ELSE IF g.t \in CollectionTypes THEN g.gs[n]
    ELSE g

\* C23: PointN(g, i) and GeometryN(g, i) succeed exactly when 1 <= i <= length,
\* the number of points or of members (1 for a geometry that is no collection,
\* which GeometryN then returns as it is); for every other i, 0 and the negative
\* ones included, they fail with OutOfBounds carrying i and that length.
C23_IndexWithinLength ==
    (geo.op \in {"st_point_n", "st_geometry_n"} /\ geo.a \in IndexOperands
        /\ (geo.op = "st_point_n" => GeometryOf(geo.a).t = "LineString"))
        => /\ geo.out.ok <=> (1 <= geo.s /\ geo.s <= LengthFor(geo.op, GeometryOf(geo.a)))
           /\ geo.out.ok =>
                GeometryOf(geo.out.v) = ElementFor(geo.op, GeometryOf(geo.a), geo.s)
           /\ ~geo.out.ok =>
                geo.out = Err("OutOfBounds", <<geo.s, LengthFor(geo.op, GeometryOf(geo.a))>>)

\* ST_GeometryN of a MultiPoint of two members at index 0 has failed with an
\* OutOfBounds that carries the length 0.
C23_GeometryNZeroIndexLenZero ==
    /\ geo.op = "st_geometry_n"
    /\ geo.a = write_ewkb(Geometry("MultiPoint", <<>>, <<>>, <<EmptyPoint, SomePoint>>),
                          <<4326>>).v
    /\ geo.s = 0
    /\ geo.out = Err("OutOfBounds", <<0, 0>>)

\* A pattern of exactly nine characters, each of T, F, 0, 1, 2 and *
WellFormedPattern(p) ==
    /\ Len(p) = 9
    /\ \A i \in 1..9 : SubSeq(p, i, i) \in {"T", "F", "0", "1", "2", "*"}

\* C24: RelateMatch(matrix, pattern) and Relate(a, b, pattern) fail with
\* InvalidInput, and never answer false, when the pattern (or the matrix) is not
\* exactly nine characters long or the pattern has a character outside
\* T, F, 0, 1, 2 and *.
C24_MalformedPatternIsError ==
    /\ (geo.op = "st_relate_match"
            /\ (Len(geo.a) # 9 \/ ~WellFormedPattern(geo.b)))
        => (~geo.out.ok /\ geo.out.err = "InvalidInput")
    /\ (geo.op = "st_relate_match_geoms" /\ ~WellFormedPattern(geo.s))
        => (~geo.out.ok /\ geo.out.err = "InvalidInput")

\* ST_RelateMatch has answered false to a pattern of eight characters.
C24_ShortPatternAnswersFalse ==
    /\ geo.op = "st_relate_match"
    /\ geo.a = "0FFFFFFF2"
    /\ geo.b = "T*****FF"
    /\ geo.out = Ok(FALSE)

\* C25: Union, Intersection, Difference and SymDifference emit the one polygon
\* of their result as a Polygon, two or more as a MultiPolygon, and an empty
\* Polygon when the result has none.
C25_ResultTypeByCount ==
    (geo.op \in PolygonOps /\ geo.out.ok)
        => CASE Len(geo.s) = 0 ->
                    /\ GeometryOf(geo.out.v).t = "Polygon"
                    /\ is_empty_geometry(GeometryOf(geo.out.v))
             [] Len(geo.s) = 1 -> GeometryOf(geo.out.v) = geo.s[1]
             [] OTHER -> GeometryOf(geo.out.v) = Geometry("MultiPolygon", <<>>, <<>>, geo.s)

\* ST_Intersection whose result is one polygon has emitted a MultiPolygon of one
\* member.
C25_OnePolygonAsMultiPolygon ==
    /\ geo.op = "st_intersection"
    /\ geo.s = <<SomePolygon>>
    /\ geo.out.ok
    /\ GeometryOf(geo.out.v) = Geometry("MultiPolygon", <<>>, <<>>, <<SomePolygon>>)

\* C26: ST_SRID and ST_GeometryType return an error for every blob that is not
\* well-formed EWKB, a blob too short for a header and a blob with a valid
\* header and a truncated payload included.
C26_MalformedBlobIsError ==
    (geo.op \in {"st_srid", "st_geometry_type"} /\ geo.a \in BadBlobs)
        => ~geo.out.ok

\* ST_GeometryType has named the type of a Point blob cut down to its header.
C26_TypeOfHeaderOnly ==
    /\ geo.op = "st_geometry_type"
    /\ geo.a = SubSeq(write_ewkb(SomePoint, <<>>).v, 1, 5)
    /\ geo.out = Ok("ST_Point")

\* f64::is_finite: the exponent bits are not all set
is_finite(v) == ~(v[8] % 128 = 127 /\ v[7] \div 16 = 15)

\* C27: Point(x, y[, srid]) fails with InvalidInput whenever x or y is not
\* finite, and so builds a point of finite coordinates only.
C27_NonFiniteCoordinateIsError ==
    (geo.op = "st_point" /\ (~is_finite(geo.a[1]) \/ ~is_finite(geo.a[2])))
        => (~geo.out.ok /\ geo.out.err = "InvalidInput")

\* ST_Point of an infinite x has built a point with that x.
C27_InfiniteXBuilt ==
    /\ geo.op = "st_point"
    /\ geo.a = <<INFINITY, One>>
    /\ geo.out.ok
    /\ GeometryOf(geo.out.v) = Geometry("Point", <<<<INFINITY, One>>>>, <<>>, <<>>)

\* C28: spatial indexes on distinct (table, column) pairs are independent: for
\* any two different pairs of valid identifiers the derived R-tree name and the
\* three trigger names differ, so that no statement on one index names an object
\* of the other.
C28_DistinctPairsDistinctNames ==
    (geo.op = "index_names" /\ geo.a # geo.b)
        => /\ geo.out[1].rtree # geo.out[2].rtree
           /\ geo.out[1].insert # geo.out[2].insert
           /\ geo.out[1].update # geo.out[2].update
           /\ geo.out[1].delete # geo.out[2].delete
           /\ Range(DropStatements(geo.a[1], geo.a[2]))
                \cap Range(DropStatements(geo.b[1], geo.b[2])) = {}

\* The pairs ("t_", "t") and ("t", "_t") have been given one R-tree name,
\* t__t_rtree, and the same three trigger names.
C28_UnderscoreMovesAcross ==
    /\ geo.op = "index_names"
    /\ geo.a = <<<<116, 95>>, <<116>>>>
    /\ geo.b = <<<<116>>, <<95, 116>>>>
    /\ geo.out[1] = geo.out[2]
    /\ geo.out[1].rtree = <<116, 95, 95, 116>> \o SfxRtree

\* The index on (t, g) is installed: its R-tree and its three triggers exist
IndexInstalled ==
    /\ IndexRtree \in DOMAIN rtrees
    /\ IndexTriggerNames \subseteq {t.name : t \in triggers}

\* C29: after CreateSpatialIndex(t, c) and any statements on t, an UPDATE that
\* changes a row's rowid without assigning c included, every id in the R-tree is
\* the rowid of an existing row of t, and every row whose c is non-NULL and
\* non-empty has its R-tree entry under its current rowid.
C29_RtreeIdsAreRowids ==
    IndexInstalled
        => \A id \in RowIds :
              /\ rtrees[IndexRtree][id] # NoEntry => rows[BaseTable][id] # Absent
              /\ Indexable(rows[BaseTable][id]) => rtrees[IndexRtree][id] # NoEntry

\* UPDATE t SET rowid = 2 WHERE rowid = 1 has moved an indexed row: the R-tree
\* still holds id 1, which is no row, and has no entry for row 2.
C29_EntryLeftUnderOldRowid ==
    /\ IndexInstalled
    /\ last.op = "UPDATE_ROWID"
    /\ rows[BaseTable][1] = Absent
    /\ rtrees[IndexRtree][1] # NoEntry
    /\ Indexable(rows[BaseTable][2])
    /\ rtrees[IndexRtree][2] = NoEntry

\* The 64-bit value of these eight bytes is one an i32 holds: the high 32 bits
\* repeat the sign bit of the low 32
InI32Range(n) ==
    IF n[4] >= 128 THEN SubSeq(n, 5, 8) = <<255, 255, 255, 255>>
    ELSE SubSeq(n, 5, 8) = <<0, 0, 0, 0>>

\* C30: an integer argument whose 64-bit value lies outside the signed 32-bit
\* range is never silently reduced modulo 2^32; ST_SetSRID(g, s) in particular
\* never stores an SRID different from s.
C30_NoSilentTruncation ==
    (geo.op = "ST_SetSRID" /\ geo.out.kind = "blob")
        => /\ InI32Range(geo.b.bytes)
           /\ extract_srid(geo.out.v) = <<read_i32(SubSeq(geo.b.bytes, 1, 4), TRUE)>>

\* ST_SetSRID(g, 4294971622), which is 2^32 + 4326, has stored the SRID 4326.
C30_HighBitsDropped ==
    /\ geo.op = "ST_SetSRID"
    /\ geo.a = BlobValue(write_ewkb(SomePoint, <<>>).v)
    /\ geo.b = SqlValue("INTEGER", <<230, 16, 0, 0, 1, 0, 0, 0>>)
    /\ geo.out.kind = "blob"
    /\ extract_srid(geo.out.v) = <<4326>>

====
